---- MODULE Spec2Model ----
(***************************************************************************)
(* Verification model of localflare: the binding merge / shadow config     *)
(* generator (packages/cli/src/shadow-config.ts), the key-value and        *)
(* object-storage accessors (api routes kv / r2), the actor storage        *)
(* server (packages/cli/src/do-storage.ts), the relational row listing     *)
(* (api routes d1), the studio API server and its state discovery          *)
(* (api lib/wrangler-state.ts), the actor-storage bridge of the sidecar    *)
(* worker (api worker/routes/do.ts), the discovery of referenced configs   *)
(* (core resolveAllConfigs), statement execution (d1.ts, do-storage.ts),   *)
(* the object and key listings (r2.ts, api routes kv) and the in-memory    *)
(* log buffer (api routes logs).                                           *)
(***************************************************************************)
EXTENDS Integers, Sequences, FiniteSets, TLC

VARIABLES
    \* ---- shadow-config.ts ----
    configs,      \* the ordered list of { path, config } handed to the generator
    manifest,     \* result of createMergedManifest, or NoResult
    toml,         \* result of generateShadowConfig (its binding blocks), or NoResult
    phase,        \* "build" while the config list is assembled, "done" after generation
    \* ---- key-value accessor ----
    kvRows,       \* _mf_entries: key -> <<>> (no row) or <<[blob_id, expiration]>>
    kvBlobs,      \* files of the blob directory: set of [id, data, key]
    kvNextBlob,   \* number of blob ids generated so far
    kvReq,        \* the request being handled, with its position in the handler
    kvResp,       \* the last response sent
    kvLast,       \* key -> value of the last completed PUT not deleted since
    kvCrashed,    \* whether a handler was ever cut short
    now,          \* the clock, in epoch seconds
    \* ---- object-storage accessor ----
    r2Rows,       \* _mf_objects: key -> <<>> (no row) or <<[blob_id, size, etag]>>
    r2Blobs,      \* files of the blob directory: set of [id, data, key]
    r2NextBlob,   \* number of blob ids generated so far
    r2Req,        \* the request being handled, with its position in the handler
    r2Resp,       \* the last response sent
    r2Last,       \* key -> bytes of the last completed PUT not deleted since
    r2Crashed,    \* whether a handler was ever cut short
    \* ---- paginated listings (do-storage.ts, d1.ts) ----
    d1Table,      \* number of rows of the relational table that is listed
    doTable,      \* number of rows of the actor table that is listed
    doKv,         \* _cf_KV of the actor instance: <<>> (no table) or <<set of keys>>
    listResp,     \* the last listing response, with the arguments given to the query
    \* ---- actor directory resolution (do-storage.ts) ----
    doConfig,     \* <<>> or <<the DOStorageConfig the server was created with>>
    doDirs,       \* entries of {persistPath}/v3/do: set of [name, isDir, files]
    doDirResp,    \* the last response of the instances route
    \* ---- studio API server (api/src/index, lib/wrangler-state.ts, routes) ----
    diskFiles,    \* state directory: type -> set of file names present on disk
    apiServer,    \* <<>> before startApiServer, then <<[bindings, stateInfo]>>
    conns,        \* database connections that are open
    studioResp,   \* the last response of a studio route
    \* ---- actor-storage bridge of the sidecar worker (api/src/worker/routes/do.ts) ----
    bridgeReq,    \* the bridged request being handled, or Idle
    hostReceived, \* the last request the host-side listener received
    bridgeResp,   \* the last response of a bridged route
    \* ---- referenced-config discovery (core config resolveAllConfigs) ----
    configTree,   \* the config files under the root directory, in search order
    resultList,   \* results: the { path, config } found so far
    seenSet,      \* seen: the paths already in results
    scriptNames,  \* the work list of referenced names
    nameIndex,    \* position of the for-of loop in scriptNames
    resolvePc,    \* idle, loop (inside resolveAllConfigs) or done
    \* ---- state directory search (api/src/lib/wrangler-state.ts findWranglerState) ----
    stateDirs,    \* levels (0 = filesystem root) of the directories holding .wrangler/state/v3
    startDir,     \* level of the directory the search starts in
    currentDir,   \* level of the directory looked at next
    hopIndex,     \* the loop counter i
    findResult,   \* <<>> while searching or not found, <<level>> when found
    findPc,       \* idle, loop or done
    \* ---- statement execution (api routes d1 and do-storage.ts query routes) ----
    d1QueryResp,  \* the last answer of the relational query route
    doQueryResp,  \* the last answer of the actor-storage query route
    \* ---- object listing (api routes r2 GET /:binding/objects) ----
    r2Objects,    \* keys of the rows of _mf_objects
    r2ListResp,   \* the last answer of the object listing
    \* ---- key listing with cursors (api routes kv GET /:binding/keys) ----
    kvKeys,       \* keys of the rows of _mf_entries
    pageReq,      \* prefix and limit of the listing being paged through, or Idle
    pageCursor,   \* the cursor the client passes next: <<>> or <<key>>
    pageKeys,     \* the keys of the pages received so far, in order
    pageLast,     \* the last page received
    \* ---- two key-value PUT requests in one API process (api routes kv PUT /:binding/keys/:key) ----
    putRows,      \* rows of _mf_entries, by key
    putBlobs,     \* files of the blob directory
    putNextBlob,  \* last blob id generated
    putPc,        \* where each of the two request handlers is
    syncOrder,    \* the PUTs whose synchronous section has run, in that order
    \* ---- process-wide log buffer (api routes logs) ----
    logBuffer,    \* the entries kept, oldest first
    logListeners, \* the subscribed listeners
    logSeq,       \* number of entries created so far; the next entry's id
    addedSinceClear,\* every entry added since the last clearLogs, in order
    lastAdd,      \* the last addLog call: its entry and how often it called each listener
    logCalls      \* how many single addLog calls and bursts have been made

shadowVars == <<configs, manifest, toml, phase>>

kvVars == <<kvRows, kvBlobs, kvNextBlob, kvReq, kvResp, kvLast, kvCrashed, now>>

r2Vars == <<r2Rows, r2Blobs, r2NextBlob, r2Req, r2Resp, r2Last, r2Crashed>>

vars == <<configs, manifest, toml, phase,
          kvRows, kvBlobs, kvNextBlob, kvReq, kvResp, kvLast, kvCrashed, now,
          r2Rows, r2Blobs, r2NextBlob, r2Req, r2Resp, r2Last, r2Crashed,
          d1Table, doTable, doKv, listResp,
          doConfig, doDirs, doDirResp,
          diskFiles, apiServer, conns, studioResp,
          bridgeReq, hostReceived, bridgeResp,
          configTree, resultList, seenSet, scriptNames, nameIndex, resolvePc,
          stateDirs, startDir, currentDir, hopIndex, findResult, findPc,
          d1QueryResp, doQueryResp,
          r2Objects, r2ListResp,
          kvKeys, pageReq, pageCursor, pageKeys, pageLast,
          putRows, putBlobs, putNextBlob, putPc, syncOrder,
          logBuffer, logListeners, logSeq, addedSinceClear, lastAdd, logCalls>>

listVars == <<d1Table, doTable, doKv, listResp>>

doDirVars == <<doConfig, doDirs, doDirResp>>

studioVars == <<diskFiles, apiServer, conns, studioResp>>

bridgeVars == <<bridgeReq, hostReceived, bridgeResp>>

resolveVars == <<configTree, resultList, seenSet, scriptNames, nameIndex, resolvePc>>

findVars == <<stateDirs, startDir, currentDir, hopIndex, findResult, findPc>>

sqlVars == <<d1QueryResp, doQueryResp>>

r2ListVars == <<r2Objects, r2ListResp>>

kvListVars == <<kvKeys, pageReq, pageCursor, pageKeys, pageLast>>

putVars == <<putRows, putBlobs, putNextBlob, putPc, syncOrder>>

logVars == <<logBuffer, logListeners, logSeq, addedSinceClear, lastAdd, logCalls>>

\* the variables each component leaves alone
NotShadow == <<kvVars, r2Vars, listVars, doDirVars, studioVars, bridgeVars, resolveVars, findVars, sqlVars, r2ListVars, kvListVars, putVars, logVars>>
NotKv == <<shadowVars, r2Vars, listVars, doDirVars, studioVars, bridgeVars, resolveVars, findVars, sqlVars, r2ListVars, kvListVars, putVars, logVars>>
NotR2 == <<shadowVars, kvVars, listVars, doDirVars, studioVars, bridgeVars, resolveVars, findVars, sqlVars, r2ListVars, kvListVars, putVars, logVars>>
NotList == <<shadowVars, kvVars, r2Vars, doDirVars, studioVars, bridgeVars, resolveVars, findVars, sqlVars, r2ListVars, kvListVars, putVars, logVars>>
NotDoDir == <<shadowVars, kvVars, r2Vars, listVars, studioVars, bridgeVars, resolveVars, findVars, sqlVars, r2ListVars, kvListVars, putVars, logVars>>
NotStudio == <<shadowVars, kvVars, r2Vars, listVars, doDirVars, bridgeVars, resolveVars, findVars, sqlVars, r2ListVars, kvListVars, putVars, logVars>>
NotBridge == <<shadowVars, kvVars, r2Vars, listVars, doDirVars, studioVars, resolveVars, findVars, sqlVars, r2ListVars, kvListVars, putVars, logVars>>
NotResolve == <<shadowVars, kvVars, r2Vars, listVars, doDirVars, studioVars, bridgeVars, findVars, sqlVars, r2ListVars, kvListVars, putVars, logVars>>
NotFind == <<shadowVars, kvVars, r2Vars, listVars, doDirVars, studioVars, bridgeVars, resolveVars, sqlVars, r2ListVars, kvListVars, putVars, logVars>>
NotSql == <<shadowVars, kvVars, r2Vars, listVars, doDirVars, studioVars, bridgeVars, resolveVars, findVars, r2ListVars, kvListVars, putVars, logVars>>
NotR2List == <<shadowVars, kvVars, r2Vars, listVars, doDirVars, studioVars, bridgeVars, resolveVars, findVars, sqlVars, kvListVars, putVars, logVars>>
NotKvList == <<shadowVars, kvVars, r2Vars, listVars, doDirVars, studioVars, bridgeVars, resolveVars, findVars, sqlVars, r2ListVars, putVars, logVars>>
NotPut == <<shadowVars, kvVars, r2Vars, listVars, doDirVars, studioVars, bridgeVars, resolveVars, findVars, sqlVars, r2ListVars, kvListVars, logVars>>
NotLog == <<shadowVars, kvVars, r2Vars, listVars, doDirVars, studioVars, bridgeVars, resolveVars, findVars, sqlVars, r2ListVars, kvListVars, putVars>>

(***************************************************************************)
(* Bounds                                                                  *)
(***************************************************************************)
MaxConfigs == 2
MaxDecls == 2
MaxBlobs == 2
MaxTime == 2
MaxRows == 2
MaxEntries == 2
MaxDirs == 2
MaxInstanceFiles == 2
MaxStateFiles == 2

(***************************************************************************)
(* Key-value accessor (createKVRoutes): data                               *)
(***************************************************************************)
Keys == {"k1", "k2"}

\* An optional value: <<>> for undefined / null, <<x>> for x.
None == <<>>
Some(x) == <<x>>

\* Strings are sequences of UTF-16 code units: "1" (U+0031), "HI" (a high
\* surrogate, U+D800), "LO" (a low surrogate, U+DC00), "REP" (U+FFFD).
\* Buffers are sequences of bytes, written in hex.
Values == {<<"1">>, <<"HI", "LO">>, <<"HI">>}

\* Buffer.from(str, 'utf-8'): a surrogate pair becomes one 4-byte sequence, an
\* unpaired surrogate is replaced by U+FFFD (EF BF BD)
RECURSIVE Utf8Encode(_)
Utf8Encode(str) ==
    IF str = <<>> THEN <<>>
    ELSE IF Head(str) = "1" THEN <<"31">> \o Utf8Encode(Tail(str))
    ELSE IF Head(str) = "HI" /\ Len(str) >= 2 /\ str[2] = "LO"
         THEN <<"F0", "90", "80", "80">> \o Utf8Encode(Tail(Tail(str)))
    ELSE <<"EF", "BF", "BD">> \o Utf8Encode(Tail(str))

\* buf.toString('utf-8')
RECURSIVE Utf8Decode(_)
Utf8Decode(buf) ==
    IF buf = <<>> THEN <<>>
    ELSE IF Head(buf) = "31" THEN <<"1">> \o Utf8Decode(Tail(buf))
    ELSE IF Len(buf) >= 4 /\ SubSeq(buf, 1, 4) = <<"F0", "90", "80", "80">>
         THEN <<"HI", "LO">> \o Utf8Decode(SubSeq(buf, 5, Len(buf)))
    ELSE IF Len(buf) >= 3 /\ SubSeq(buf, 1, 3) = <<"EF", "BF", "BD">>
         THEN <<"REP">> \o Utf8Decode(SubSeq(buf, 4, Len(buf)))
    ELSE <<"REP">> \o Utf8Decode(Tail(buf))

BufferToString(buf) == Utf8Decode(buf)

Idle == [op |-> "idle"]
NoResp == [op |-> "none"]

KvInit ==
    /\ kvRows = [k \in Keys |-> None]
    /\ kvBlobs = {}
    /\ kvNextBlob = 0
    /\ kvReq = Idle
    /\ kvResp = NoResp
    /\ kvLast = [k \in Keys |-> None]
    /\ kvCrashed = FALSE
    /\ now = 0

R2Init ==
    /\ r2Rows = [k \in Keys |-> None]
    /\ r2Blobs = {}
    /\ r2NextBlob = 0
    /\ r2Req = Idle
    /\ r2Resp = NoResp
    /\ r2Last = [k \in Keys |-> None]
    /\ r2Crashed = FALSE

ListInit ==
    /\ d1Table = 0
    /\ doTable = 0
    /\ doKv = None
    /\ listResp = NoResp

DoDirInit ==
    /\ doConfig = None
    /\ doDirs = {}
    /\ doDirResp = NoResp

StudioInit ==
    /\ diskFiles = [t \in {"d1", "kv", "r2"} |-> {}]
    /\ apiServer = None
    /\ conns = {}
    /\ studioResp = NoResp

BridgeInit ==
    /\ bridgeReq = Idle
    /\ hostReceived = NoResp
    /\ bridgeResp = NoResp

ResolveInit ==
    /\ configTree = <<>>
    /\ resultList = <<>>
    /\ seenSet = {}
    /\ scriptNames = <<>>
    /\ nameIndex = 1
    /\ resolvePc = "idle"

FindInit ==
    /\ stateDirs = {}
    /\ startDir = 0
    /\ currentDir = 0
    /\ hopIndex = 0
    /\ findResult = <<>>
    /\ findPc = "idle"

SqlInit ==
    /\ d1QueryResp = NoResp
    /\ doQueryResp = NoResp

R2ListInit ==
    /\ r2Objects = {}
    /\ r2ListResp = NoResp

KvListInit ==
    /\ kvKeys = {}
    /\ pageReq = Idle
    /\ pageCursor = <<>>
    /\ pageKeys = <<>>
    /\ pageLast = NoResp

PutInit ==
    /\ putRows = [k \in Keys |-> None]
    /\ putBlobs = {}
    /\ putNextBlob = 0
    /\ putPc = [i \in 1..2 |-> Idle]
    /\ syncOrder = <<>>

LogInit ==
    /\ logBuffer = <<>>
    /\ logListeners = {}
    /\ logSeq = 0
    /\ addedSinceClear = <<>>
    /\ lastAdd = NoResp
    /\ logCalls = [singles |-> 0, bursts |-> 0]

(***************************************************************************)
(* shadow-config.ts: data                                                  *)
(***************************************************************************)
\* An absent or empty string: both are falsy in `x || fallback`.
Absent == ""

NoResult == [none |-> TRUE]

BindingTypes == {"d1", "kv", "r2", "producers", "consumers", "do", "vars"}

\* A declaration inside a config.  `binding` is the dedup key of its type
\* (binding name; the queue for a consumer; the key for a variable), `target`
\* stands for its target identifiers (database_name+database_id, id,
\* bucket_name, queue, consumer settings, class_name, value) and `script`
\* is script_name (actor bindings only).
Decl(b, t, s) == [binding |-> b, target |-> t, script |-> s]

EmptyConfig(n) ==
    [name |-> n, d1 |-> <<>>, kv |-> <<>>, r2 |-> <<>>, producers |-> <<>>,
     consumers |-> <<>>, do |-> <<>>, vars |-> <<>>]

RECURSIVE SeqToSet(_)
SeqToSet(s) == IF s = <<>> THEN {} ELSE {Head(s)} \cup SeqToSet(Tail(s))

RECURSIVE CountDecls(_)
CountDecls(cfgs) ==
    IF cfgs = <<>> THEN 0
    ELSE LET c == Head(cfgs)
         IN Len(c.d1) + Len(c.kv) + Len(c.r2) + Len(c.producers)
            + Len(c.consumers) + Len(c.do) + Len(c.vars) + CountDecls(Tail(cfgs))

\* for (const { config } of configs) for (const x of config.<type> || []) ...
\* the declarations of one type in iteration order
RECURSIVE DeclsInOrder(_, _)
DeclsInOrder(cfgs, type) ==
    IF cfgs = <<>> THEN <<>>
    ELSE Head(cfgs)[type] \o DeclsInOrder(Tail(cfgs), type)

\* if (!seen.has(key)) { seen.add(key); out.push(x) }
RECURSIVE DedupLoop(_, _)
DedupLoop(decls, seen) ==
    IF decls = <<>> THEN <<>>
    ELSE LET d == Head(decls)
         IN IF d.binding \in seen
            THEN DedupLoop(Tail(decls), seen)
            ELSE <<d>> \o DedupLoop(Tail(decls), seen \cup {d.binding})

\* A mutated dedup loop in which a later declaration replaces an earlier one.
RECURSIVE DedupLastWins(_, _)
DedupLastWins(decls, seen) ==
    IF decls = <<>> THEN <<>>
    ELSE LET d == Head(decls)
             rest == Tail(decls)
         IN IF \E i \in 1..Len(rest) : rest[i].binding = d.binding
            THEN DedupLastWins(rest, seen)
            ELSE <<d>> \o DedupLastWins(rest, seen)

Dedup(decls, seen) == DedupLoop(decls, seen)

\* the projection pushed into the manifest for each type
ManifestEntry(type, d) ==
    IF type = "kv" THEN [binding |-> d.binding]
    ELSE [binding |-> d.binding, target |-> d.target]

MapEntries(type, decls) == [i \in 1..Len(decls) |-> ManifestEntry(type, decls[i])]

createMergedManifest(cfgs) ==
    [name |-> IF cfgs[1].name # Absent THEN cfgs[1].name ELSE "worker",
     d1 |-> MapEntries("d1", Dedup(DeclsInOrder(cfgs, "d1"), {})),
     kv |-> MapEntries("kv", Dedup(DeclsInOrder(cfgs, "kv"), {})),
     r2 |-> MapEntries("r2", Dedup(DeclsInOrder(cfgs, "r2"), {})),
     producers |-> MapEntries("producers", Dedup(DeclsInOrder(cfgs, "producers"), {})),
     consumers |-> MapEntries("consumers", Dedup(DeclsInOrder(cfgs, "consumers"), {})),
     do |-> MapEntries("do", Dedup(DeclsInOrder(cfgs, "do"), {})),
     vars |-> MapEntries("vars", Dedup(DeclsInOrder(cfgs, "vars"), {})),
     workers |-> [i \in 1..Len(cfgs) |->
                    IF cfgs[i].name # Absent THEN cfgs[i].name ELSE "worker"]]

\* buildDOClassOwnerMap: inner loop over one config's actor bindings
RECURSIVE OwnerLoop(_, _, _)
OwnerLoop(bindings, workerName, map) ==
    IF bindings = <<>> THEN map
    ELSE LET b == Head(bindings)
         IN IF b.script = Absent /\ b.target \notin DOMAIN map
            THEN OwnerLoop(Tail(bindings), workerName, map @@ (b.target :> workerName))
            ELSE OwnerLoop(Tail(bindings), workerName, map)

\* A mutated owner loop that lets any binding, remote or not, claim the class.
RECURSIVE OwnerLoopAnyBinding(_, _, _)
OwnerLoopAnyBinding(bindings, workerName, map) ==
    IF bindings = <<>> THEN map
    ELSE LET b == Head(bindings)
         IN IF b.target \notin DOMAIN map
            THEN OwnerLoopAnyBinding(Tail(bindings), workerName, map @@ (b.target :> workerName))
            ELSE OwnerLoopAnyBinding(Tail(bindings), workerName, map)

OwnerStep(bindings, workerName, map) == OwnerLoop(bindings, workerName, map)

WorkerName(cfg) == IF cfg.name # Absent THEN cfg.name ELSE "user-worker"

RECURSIVE OwnerConfigs(_, _)
OwnerConfigs(cfgs, map) ==
    IF cfgs = <<>> THEN map
    ELSE OwnerConfigs(Tail(cfgs), OwnerStep(Head(cfgs).do, WorkerName(Head(cfgs)), map))

EmptyMap == [x \in {} |-> Absent]

buildDOClassOwnerMap(cfgs) == OwnerConfigs(cfgs, EmptyMap)

\* doClassOwners.get(class_name)
MapGet(map, k) == IF k \in DOMAIN map THEN map[k] ELSE Absent

\* One emitted [[section]] block of the generated wrangler.toml.
Block(section, d, script) ==
    [section |-> section, binding |-> d.binding, target |-> d.target, script |-> script]

PlainBlocks(section, decls) ==
    [i \in 1..Len(decls) |-> Block(section, decls[i], Absent)]

\* A mutated actor block that copies the declared script_name when there is one.
ActorBlockKeepScript(d, owners, userWorkerName) ==
    LET o == MapGet(owners, d.target)
    IN Block("durable_objects.bindings", d,
             IF d.script # Absent THEN d.script
             ELSE IF o # Absent THEN o ELSE userWorkerName)

\* script_name = doClassOwners.get(class_name) || userWorkerName
ActorBlock(d, owners, userWorkerName) ==
    LET o == MapGet(owners, d.target)
    IN Block("durable_objects.bindings", d, IF o # Absent THEN o ELSE userWorkerName)

ActorBlocks(decls, owners, userWorkerName) ==
    [i \in 1..Len(decls) |-> ActorBlock(decls[i], owners, userWorkerName)]

\* A mutated section that is not emitted at all.
ShadowSectionDropped(cfgs, type, section) == <<>>

\* The blocks generateShadowConfig appends for one binding type.
ShadowSection(cfgs, type, section) ==
    PlainBlocks(section, Dedup(DeclsInOrder(cfgs, type), {}))

generateShadowConfig(cfgs, isPrimary) ==
    LET userWorkerName == WorkerName(cfgs[1])
        owners == buildDOClassOwnerMap(cfgs)
    IN [manifestVar |-> createMergedManifest(cfgs),
        services |-> IF isPrimary
                     THEN <<[binding |-> "USER_WORKER", service |-> userWorkerName]>>
                     ELSE <<>>,
        blocks |-> ShadowSection(cfgs, "d1", "d1_databases")
                   \o ShadowSection(cfgs, "kv", "kv_namespaces")
                   \o ShadowSection(cfgs, "r2", "r2_buckets")
                   \o ShadowSection(cfgs, "producers", "queues.producers")
                   \o ActorBlocks(Dedup(DeclsInOrder(cfgs, "do"), {}), owners, userWorkerName)]

(***************************************************************************)
(* shadow-config.ts: inputs and actions                                    *)
(***************************************************************************)
ConfigNames == {Absent, "svcA", "svcB"}
BindingNames == {"X", "Y"}
ClassNames == {"K1", "K2"}

\* declarations of the non-actor types: two declarations of X that differ in
\* their target identifiers, and a declaration of another name
PlainDecls == {Decl("X", "T1", Absent), Decl("X", "T2", Absent), Decl("Y", "T1", Absent)}

\* actor declarations: local (no script_name) or naming a remote script
ActorDecls == {Decl(b, k, s) : b \in BindingNames, k \in ClassNames, s \in {Absent, "svcB"}}

\* the parsed config list grows by one service config
AddConfig(n) ==
    /\ phase = "build"
    /\ Len(configs) < MaxConfigs
    /\ configs' = Append(configs, EmptyConfig(n))
    /\ UNCHANGED <<manifest, toml, phase>>
    /\ UNCHANGED NotShadow

\* the last parsed config carries one more declaration of a type; a config's
\* [vars] table is an object, so its keys are unique within the config
AddDecl(type, d) ==
    /\ phase = "build"
    /\ configs # <<>>
    /\ CountDecls(configs) < MaxDecls
    /\ LET n == Len(configs)
           c == configs[n]
       IN /\ type = "vars" => \A i \in 1..Len(c.vars) : c.vars[i].binding # d.binding
          /\ configs' = [configs EXCEPT ![n] = [c EXCEPT ![type] = Append(c[type], d)]]
    /\ UNCHANGED <<manifest, toml, phase>>
    /\ UNCHANGED NotShadow

\* setupLocalflareDir: createMergedManifest(configs) and generateShadowConfig(configs, ..)
Generate(isPrimary) ==
    /\ phase = "build"
    /\ configs # <<>>
    /\ manifest' = createMergedManifest(configs)
    /\ toml' = generateShadowConfig(configs, isPrimary)
    /\ phase' = "done"
    /\ UNCHANGED configs
    /\ UNCHANGED NotShadow

ShadowInit ==
    /\ configs = <<>>
    /\ manifest = NoResult
    /\ toml = NoResult
    /\ phase = "build"

GenerateAny == \E p \in BOOLEAN : Generate(p)

\* ---- the merge over all binding types ----
AddMergeConfig == \E n \in {"svcA"} : AddConfig(n)
AddPlainDecl ==
    \E type \in BindingTypes \ {"do"} : \E d \in PlainDecls : AddDecl(type, d)
AddLocalActorDecl ==
    \E d \in {a \in ActorDecls : a.script = Absent} : AddDecl("do", d)

\* the state after construction: nothing generated, every store empty
Init == ShadowInit /\ KvInit /\ R2Init /\ ListInit /\ DoDirInit /\ StudioInit /\ BridgeInit /\ ResolveInit /\ FindInit /\ SqlInit /\ R2ListInit /\ KvListInit /\ PutInit /\ LogInit

MergeInit == Init

MergeNext ==
    \/ AddMergeConfig
    \/ AddPlainDecl
    \/ AddLocalActorDecl
    \/ GenerateAny

SpecMerge == MergeInit /\ [][MergeNext]_vars

\* ---- actor bindings across services ----
AddOwnerConfig == \E n \in ConfigNames : AddConfig(n)
AddActorDecl == \E d \in ActorDecls : AddDecl("do", d)

OwnerInit == Init

OwnerNext ==
    \/ AddOwnerConfig
    \/ AddActorDecl
    \/ GenerateAny

SpecOwner == OwnerInit /\ [][OwnerNext]_vars

(***************************************************************************)
(* Properties of the merge and of the shadow config                        *)
(***************************************************************************)
\* the binding names some config declares for a type
DeclaredNames(type) ==
    UNION {{configs[i][type][j].binding : j \in 1..Len(configs[i][type])} :
              i \in 1..Len(configs)}

Declares(i, type, x) == \E j \in 1..Len(configs[i][type]) : configs[i][type][j].binding = x

\* the declaration of x in the earliest config that declares x
EarliestDecl(type, x) ==
    LET i == CHOOSE c \in 1..Len(configs) :
                 Declares(c, type, x) /\ \A e \in 1..(c - 1) : ~Declares(e, type, x)
        j == CHOOSE d \in 1..Len(configs[i][type]) :
                 /\ configs[i][type][d].binding = x
                 /\ \A e \in 1..(d - 1) : configs[i][type][e].binding # x
    IN configs[i][type][j]

SectionOf(type) ==
    CASE type = "d1" -> "d1_databases"
      [] type = "kv" -> "kv_namespaces"
      [] type = "r2" -> "r2_buckets"
      [] type = "producers" -> "queues.producers"
      [] type = "consumers" -> "queues.consumers"
      [] type = "do" -> "durable_objects.bindings"
      [] type = "vars" -> "vars"

\* C1: createMergedManifest is a first-occurrence-wins merge: for every binding
\* type, the manifest holds exactly the declared names, each once, and the entry
\* of a name is the declaration of that name in the earliest config declaring it.
C1_FirstOccurrenceWins ==
    phase = "done" =>
        \A type \in BindingTypes :
            LET m == manifest[type]
            IN /\ \A i, j \in 1..Len(m) : m[i].binding = m[j].binding => i = j
               /\ {m[i].binding : i \in 1..Len(m)} = DeclaredNames(type)
               /\ \A i \in 1..Len(m) :
                      m[i] = ManifestEntry(type, EarliestDecl(type, m[i].binding))

\* two configs declare the same name with different targets, and the merge ran
C1_Witness ==
    /\ phase = "done"
    /\ \E type \in BindingTypes \ {"kv"} : \E i, j \in 1..Len(configs) :
           /\ i < j
           /\ \E a \in 1..Len(configs[i][type]) : \E b \in 1..Len(configs[j][type]) :
                  /\ configs[i][type][a].binding = configs[j][type][b].binding
                  /\ configs[i][type][a].target # configs[j][type][b].target

LocallyDefines(i, k) ==
    \E j \in 1..Len(configs[i].do) :
        configs[i].do[j].target = k /\ configs[i].do[j].script = Absent

\* the first config in discovery order that declares class k without script_name
FirstLocalOwner(k) ==
    CHOOSE c \in 1..Len(configs) :
        LocallyDefines(c, k) /\ \A e \in 1..(c - 1) : ~LocallyDefines(e, k)

ActorBlocksOf(k) ==
    {b \in SeqToSet(toml.blocks) : b.section = "durable_objects.bindings" /\ b.target = k}

\* C2: a class that some config defines locally is owned by the first such
\* config, and every emitted actor binding of that class gets that owner as
\* script_name, whatever script_name its declaration carried.
C2_OwnerIsFirstLocalDefiner ==
    phase = "done" =>
        \A k \in ClassNames :
            (\E c \in 1..Len(configs) : LocallyDefines(c, k)) =>
                LET A == WorkerName(configs[FirstLocalOwner(k)])
                IN /\ k \in DOMAIN buildDOClassOwnerMap(configs)
                   /\ buildDOClassOwnerMap(configs)[k] = A
                   /\ \A b \in ActorBlocksOf(k) : b.script = A

\* B (earlier in the list) binds a class remotely under another name, A (later)
\* defines it locally, and B's binding was emitted
C2_Witness ==
    /\ phase = "done"
    /\ \E i, j \in 1..Len(configs) :
           /\ j < i
           /\ \E a \in 1..Len(configs[i].do) : \E b \in 1..Len(configs[j].do) :
                  /\ configs[i].do[a].script = Absent
                  /\ configs[j].do[b].script # Absent
                  /\ configs[j].do[b].script # WorkerName(configs[i])
                  /\ configs[i].do[a].target = configs[j].do[b].target
                  /\ configs[i].do[a].binding # configs[j].do[b].binding
                  /\ \E blk \in ActorBlocksOf(configs[j].do[b].target) :
                         /\ blk.binding = configs[j].do[b].binding
                         /\ blk.script = WorkerName(configs[i])

Redeclared(type) ==
    \A i \in 1..Len(manifest[type]) :
        LET x == manifest[type][i].binding
        IN Cardinality({n \in 1..Len(toml.blocks) :
                           /\ toml.blocks[n].section = SectionOf(type)
                           /\ toml.blocks[n].binding = x
                           /\ toml.blocks[n].target = EarliestDecl(type, x).target}) = 1

\* C3 (as claimed): every binding of the merged manifest, queue consumers and
\* variables included, is re-declared as a block of the shadow config with the
\* name and the target identifiers of the declaration that won the merge.
C3_EveryEntryRedeclared ==
    phase = "done" => \A type \in BindingTypes : Redeclared(type)

\* C3 (amended): that holds for the relational, key-value, object-store, queue
\* producer and actor bindings; queue consumers and variables get no block.
C3_BindingsRedeclared ==
    phase = "done" =>
        /\ \A type \in {"d1", "kv", "r2", "producers", "do"} : Redeclared(type)
        /\ \A n \in 1..Len(toml.blocks) :
               toml.blocks[n].section \notin {SectionOf("consumers"), SectionOf("vars")}

\* a merged manifest with a binding that two configs declare differently
C3_Witness ==
    /\ phase = "done"
    /\ \E type \in {"d1", "kv", "r2", "producers", "do"} : \E i, j \in 1..Len(configs) :
           /\ i < j
           /\ \E a \in 1..Len(configs[i][type]) : \E b \in 1..Len(configs[j][type]) :
                  /\ configs[i][type][a].binding = configs[j][type][b].binding
                  /\ configs[i][type][a].target # configs[j][type][b].target
                  /\ Len(toml.blocks) = 1

(***************************************************************************)
(* Key-value accessor (createKVRoutes): handlers                           *)
(*                                                                         *)
(* A handler's file-system and database calls are separate steps: the      *)
(* runtime process reads the same files and rows in between, and a call    *)
(* that throws (or the process dying) ends the handler where it stands.    *)
(***************************************************************************)
\* `x ? ... : ...` on an optional number: undefined, null and 0 are falsy
Truthy(opt) == opt # None /\ opt[1] # 0

\* readBlob: the file's content, or null when the file does not exist
readBlob(blobs, blobId) ==
    IF \E b \in blobs : b.id = blobId
    THEN Some((CHOOSE b \in blobs : b.id = blobId).data)
    ELSE None

\* writeBlob: writeFileSync(join(blobDir, blobId), data)
writeBlob(blobs, blobId, data, key) ==
    {b \in blobs : b.id # blobId} \cup {[id |-> blobId, data |-> data, key |-> key]}

\* A mutated deleteBlob that leaves the file in place.
deleteBlobNoop(blobs, blobId) == blobs

\* deleteBlob: unlinkSync when the file exists
deleteBlob(blobs, blobId) == {b \in blobs : b.id # blobId}

\* generateBlobId: 32 random hex digits, modelled as an id never produced before
generateBlobId(n) == n + 1

\* the (expiration, expirationTtl) pairs of a PUT body
ExpChoices == {<<None, None>>, <<Some(1), None>>, <<None, Some(-1)>>, <<Some(0), Some(1)>>}

PutBodies ==
    {[value |-> v, expiration |-> e[1], expirationTtl |-> e[2]] : v \in Values, e \in ExpChoices}

\* Calculate expiration
KvExpiration(body, t) ==
    IF Truthy(body.expiration) THEN body.expiration
    ELSE IF Truthy(body.expirationTtl) THEN Some(t + body.expirationTtl[1])
    ELSE None

\* ---- PUT /:binding/keys/:key ----
KvPutBegin(k, body) ==
    /\ kvReq = Idle
    /\ kvNextBlob < MaxBlobs
    /\ kvReq' = [op |-> "put", pc |-> "write", key |-> k, body |-> body,
                 blobId |-> 0, steps |-> <<>>]
    /\ kvResp' = NoResp
    /\ UNCHANGED <<kvRows, kvBlobs, kvNextBlob, kvLast, kvCrashed, now>>
    /\ UNCHANGED NotKv

\* const blobId = generateBlobId(); writeBlob(blobDir, blobId, Buffer.from(value, 'utf-8'))
KvPutWriteBlob ==
    /\ kvReq.op = "put" /\ kvReq.pc = "write"
    /\ LET id == generateBlobId(kvNextBlob)
       IN /\ kvNextBlob' = id
          /\ kvBlobs' = writeBlob(kvBlobs, id, Utf8Encode(kvReq.body.value), kvReq.key)
          /\ kvReq' = [kvReq EXCEPT !.pc = "deleteOld", !.blobId = id,
                                    !.steps = @ \o <<"generate", "write">>]
    /\ UNCHANGED <<kvRows, kvResp, kvLast, kvCrashed, now>>
    /\ UNCHANGED NotKv

\* const oldRow = SELECT blob_id ...; if (oldRow) deleteBlob(blobDir, oldRow.blob_id)
KvPutDeleteOld ==
    /\ kvReq.op = "put" /\ kvReq.pc = "deleteOld"
    /\ LET oldRow == kvRows[kvReq.key]
       IN IF oldRow # None
          THEN /\ kvBlobs' = deleteBlob(kvBlobs, oldRow[1].blob_id)
               /\ kvReq' = [kvReq EXCEPT !.pc = "upsert", !.steps = Append(@, "deleteOld")]
          ELSE /\ kvBlobs' = kvBlobs
               /\ kvReq' = [kvReq EXCEPT !.pc = "upsert"]
    /\ UNCHANGED <<kvRows, kvNextBlob, kvResp, kvLast, kvCrashed, now>>
    /\ UNCHANGED NotKv

\* INSERT OR REPLACE INTO _mf_entries (key, blob_id, expiration, metadata)
KvPutUpsert ==
    /\ kvReq.op = "put" /\ kvReq.pc = "upsert"
    /\ kvRows' = [kvRows EXCEPT ![kvReq.key] =
                     Some([blob_id |-> kvReq.blobId,
                           expiration |-> KvExpiration(kvReq.body, now)])]
    /\ kvReq' = [kvReq EXCEPT !.pc = "respond", !.steps = Append(@, "upsert")]
    /\ UNCHANGED <<kvBlobs, kvNextBlob, kvResp, kvLast, kvCrashed, now>>
    /\ UNCHANGED NotKv

\* return c.json({ success: true })
KvPutRespond ==
    /\ kvReq.op = "put" /\ kvReq.pc = "respond"
    /\ kvResp' = [op |-> "put", key |-> kvReq.key, status |-> 200, value |-> <<>>,
                  at |-> now, rowExp |-> None, last |-> None, steps |-> kvReq.steps]
    /\ kvLast' = [kvLast EXCEPT ![kvReq.key] = Some(kvReq.body.value)]
    /\ kvReq' = Idle
    /\ UNCHANGED <<kvRows, kvBlobs, kvNextBlob, kvCrashed, now>>
    /\ UNCHANGED NotKv

\* ---- DELETE /:binding/keys/:key and POST /:binding/bulk-delete ----
\* both run, per key: row lookup, deleteBlob, DELETE FROM _mf_entries
KvDeleteBegin(keys) ==
    /\ kvReq = Idle
    /\ kvReq' = [op |-> "delete", pc |-> "blob", keys |-> keys, steps |-> <<>>]
    /\ kvResp' = NoResp
    /\ UNCHANGED <<kvRows, kvBlobs, kvNextBlob, kvLast, kvCrashed, now>>
    /\ UNCHANGED NotKv

\* if (row) deleteBlob(blobDir, row.blob_id)
KvDeleteBlob ==
    /\ kvReq.op = "delete" /\ kvReq.pc = "blob" /\ kvReq.keys # <<>>
    /\ LET k == Head(kvReq.keys)
           row == kvRows[k]
       IN IF row # None
          THEN /\ kvBlobs' = deleteBlob(kvBlobs, row[1].blob_id)
               /\ kvReq' = [kvReq EXCEPT !.pc = "row", !.steps = Append(@, "deleteBlob")]
               /\ kvLast' = [kvLast EXCEPT ![k] = None]
          ELSE /\ kvBlobs' = kvBlobs
               /\ kvReq' = [kvReq EXCEPT !.keys = Tail(@)]
               /\ kvLast' = kvLast
    /\ UNCHANGED <<kvRows, kvNextBlob, kvResp, kvCrashed, now>>
    /\ UNCHANGED NotKv

\* db.prepare(`DELETE FROM _mf_entries WHERE key = ?`).run(key)
KvDeleteRow ==
    /\ kvReq.op = "delete" /\ kvReq.pc = "row"
    /\ kvRows' = [kvRows EXCEPT ![Head(kvReq.keys)] = None]
    /\ kvReq' = [kvReq EXCEPT !.pc = "blob", !.keys = Tail(@),
                              !.steps = Append(@, "deleteRow")]
    /\ UNCHANGED <<kvBlobs, kvNextBlob, kvResp, kvLast, kvCrashed, now>>
    /\ UNCHANGED NotKv

KvDeleteRespond ==
    /\ kvReq.op = "delete" /\ kvReq.pc = "blob" /\ kvReq.keys = <<>>
    /\ kvResp' = [op |-> "delete", key |-> "", status |-> 200, value |-> <<>>,
                  at |-> now, rowExp |-> None, last |-> None, steps |-> <<>>]
    /\ kvReq' = Idle
    /\ UNCHANGED <<kvRows, kvBlobs, kvNextBlob, kvLast, kvCrashed, now>>
    /\ UNCHANGED NotKv

\* ---- GET /:binding/keys/:key ----
KvGetValue(type, blobData) ==
    CASE type = "json" -> <<"json">> \o BufferToString(blobData)
      [] type = "arrayBuffer" -> <<"base64">> \o blobData
      [] OTHER -> BufferToString(blobData)

\* JSON.parse throws on a text that is no JSON document
JsonParseThrows(str) == str # <<"1">>

KvGetStatus(row, type, t, blobs) ==
    IF row = None THEN 404
    ELSE IF Truthy(row[1].expiration) /\ row[1].expiration[1] < t THEN 404
    ELSE IF readBlob(blobs, row[1].blob_id) = None THEN 404
    ELSE IF type = "json" /\ JsonParseThrows(BufferToString(readBlob(blobs, row[1].blob_id)[1]))
         THEN 500
    ELSE 200

KvGet(k, type) ==
    /\ kvReq = Idle
    /\ LET row == kvRows[k]
           status == KvGetStatus(row, type, now, kvBlobs)
       IN kvResp' = [op |-> "get", key |-> k, status |-> status,
                     value |-> IF status = 200
                               THEN KvGetValue(type, readBlob(kvBlobs, row[1].blob_id)[1])
                               ELSE <<>>,
                     at |-> now,
                     rowExp |-> IF row = None THEN None ELSE row[1].expiration,
                     last |-> IF type = "text" THEN kvLast[k] ELSE None,
                     steps |-> <<>>]
    /\ UNCHANGED <<kvRows, kvBlobs, kvNextBlob, kvReq, kvLast, kvCrashed, now>>
    /\ UNCHANGED NotKv

\* a file-system or database call throws (the catch block answers 500), or the
\* process dies: the handler stops where it stands
KvAbort ==
    /\ kvReq # Idle
    /\ kvReq.steps # <<>>
    /\ kvReq' = Idle
    /\ kvCrashed' = TRUE
    /\ kvResp' = [op |-> kvReq.op, key |-> "", status |-> 500, value |-> <<>>,
                  at |-> now, rowExp |-> None, last |-> None, steps |-> <<>>]
    /\ UNCHANGED <<kvRows, kvBlobs, kvNextBlob, kvLast, now>>
    /\ UNCHANGED NotKv

\* the clock advances
Tick ==
    /\ now < MaxTime
    /\ now' = now + 1
    /\ UNCHANGED <<kvRows, kvBlobs, kvNextBlob, kvReq, kvResp, kvLast, kvCrashed>>
    /\ UNCHANGED NotKv

KeyLists == {<<"k1">>, <<"k2">>, <<"k2", "k1">>}

KvDeleteAny == \E keys \in KeyLists : KvDeleteBegin(keys)
KvGetAny == \E k \in Keys : \E type \in {"text", "json", "arrayBuffer"} : KvGet(k, type)

\* ---- the blob life cycle: every key and value, expiring entries, aborts ----
KvPutAny ==
    \E k \in Keys : \E body \in {b \in PutBodies : b.expiration = None} : KvPutBegin(k, body)

KvNext ==
    \/ KvPutAny
    \/ KvPutWriteBlob
    \/ KvPutDeleteOld
    \/ KvPutUpsert
    \/ KvPutRespond
    \/ KvDeleteAny
    \/ KvDeleteBlob
    \/ KvDeleteRow
    \/ KvDeleteRespond
    \/ KvGetAny
    \/ KvAbort

SpecKV == Init /\ [][KvNext]_vars

\* ---- expiration: one key, every expiration a PUT can store, a moving clock ----
KvPutExpiring ==
    \E body \in {b \in PutBodies : b.value = <<"1">>} : KvPutBegin("k1", body)
KvGetText == KvGet("k1", "text")

KvExpNext ==
    \/ KvPutExpiring
    \/ KvPutWriteBlob
    \/ KvPutDeleteOld
    \/ KvPutUpsert
    \/ KvPutRespond
    \/ KvGetText
    \/ Tick

SpecKVExp == Init /\ [][KvExpNext]_vars

(***************************************************************************)
(* Properties of the key-value accessor                                    *)
(***************************************************************************)
Before(steps, a, b) ==
    \A i \in 1..Len(steps) : steps[i] = b => \E j \in 1..(i - 1) : steps[j] = a

\* C4 (as claimed): a PUT that overwrites a key generates the blob id, writes
\* the new blob, upserts the metadata row and only then deletes the previous
\* blob: the previous blob is never deleted before the row has been swapped.
C4_OldBlobDeletedAfterSwap ==
    /\ kvReq.op = "put" => Before(kvReq.steps, "upsert", "deleteOld")
    /\ (kvResp.op = "put" /\ kvResp.status = 200
            /\ \E i \in 1..Len(kvResp.steps) : kvResp.steps[i] = "deleteOld")
        => kvResp.steps = <<"generate", "write", "upsert", "deleteOld">>

\* C5 (as claimed): at every point of a PUT, DELETE or bulk delete, every
\* metadata row references a blob file that exists.
C5_NoRowWithoutBlob ==
    \A k \in Keys :
        kvRows[k] # None => readBlob(kvBlobs, kvRows[k][1].blob_id) # None

\* no unpaired surrogate: every "HI" is followed by "LO", every "LO" follows "HI"
WellFormed(str) ==
    \A i \in 1..Len(str) :
        /\ str[i] = "HI" => (i < Len(str) /\ str[i + 1] = "LO")
        /\ str[i] = "LO" => (i > 1 /\ str[i - 1] = "HI")

\* the entry read by a GET had not expired: no expiration, or one not yet passed
NotExpired(resp) == resp.rowExp = None \/ resp.rowExp[1] >= resp.at

BlobsFor(k) == {b \in kvBlobs : b.key = k}

OneBlobPerKey ==
    (kvReq = Idle /\ ~kvCrashed) =>
        \A k \in Keys :
            IF kvRows[k] = None THEN BlobsFor(k) = {}
            ELSE {b.id : b \in BlobsFor(k)} = {kvRows[k][1].blob_id}

\* C6 (as claimed): after a PUT of k with value v, a text GET of the unexpired
\* entry returns v; and after any sequence of completed PUTs the blob directory
\* holds exactly one blob for k, the one the row references.
C6_RoundTripAnyValue ==
    /\ (kvResp.op = "get" /\ ~kvCrashed /\ kvResp.last # None /\ NotExpired(kvResp))
        => (kvResp.status = 200 /\ kvResp.value = kvResp.last[1])
    /\ OneBlobPerKey

\* C6 (amended): the same, for a value v that holds no unpaired surrogate.
C6_RoundTripWellFormed ==
    /\ (kvResp.op = "get" /\ ~kvCrashed /\ kvResp.last # None /\ NotExpired(kvResp)
            /\ WellFormed(kvResp.last[1]))
        => (kvResp.status = 200 /\ kvResp.value = kvResp.last[1])
    /\ OneBlobPerKey

\* k was written twice, the second blob is the only one left, and a GET
\* returned the second value
C6_Witness ==
    /\ kvResp.op = "get" /\ kvResp.status = 200 /\ ~kvCrashed
    /\ kvResp.last # None /\ kvResp.value = kvResp.last[1]
    /\ kvResp.value = <<"HI", "LO">>
    /\ kvRows[kvResp.key] # None /\ kvRows[kvResp.key][1].blob_id = 2
    /\ \A k \in Keys \ {kvResp.key} : kvRows[k] = None /\ kvLast[k] = None
    /\ Cardinality(kvBlobs) = 1

\* C7 (as claimed): a GET of a key whose row carries an expiration earlier than
\* the current time answers 404.
C7_ExpiredIsNotFound ==
    (kvResp.op = "get" /\ kvResp.rowExp # None /\ kvResp.rowExp[1] < kvResp.at)
        => kvResp.status = 404

(***************************************************************************)
(* Object-storage accessor (createR2Routes)                                *)
(***************************************************************************)
\* the request bodies of an upload: 0, 1 and 2 bytes
Bodies == {<<>>, <<"00">>, <<"00", "FF">>}

\* createHash('md5').update(data).digest('hex'): a function of the bytes alone
Md5(data) == <<"md5">> \o data

\* A mutated etag, computed before the body is taken into account.
R2EtagOfNothing(data) == Md5(<<>>)

R2Etag(data) == Md5(data)

\* headers.set('ETag', `"${row.etag}"`): the stored hex digest between quotes
EtagHeader(etag) == <<"\"">> \o etag \o <<"\"">>

R2Response(op, k, status, body, etag, length, last) ==
    [op |-> op, key |-> k, status |-> status, body |-> body, etag |-> etag,
     length |-> length, last |-> last]

\* ---- PUT /:binding/objects/:key ----
R2PutBegin(k, data) ==
    /\ r2Req = Idle
    /\ r2NextBlob < MaxBlobs
    /\ r2Req' = [op |-> "put", pc |-> "write", key |-> k, data |-> data,
                 blobId |-> 0, etag |-> <<>>, steps |-> <<>>]
    /\ r2Resp' = NoResp
    /\ UNCHANGED <<r2Rows, r2Blobs, r2NextBlob, r2Last, r2Crashed>>
    /\ UNCHANGED NotR2

\* blobId = generateBlobId(); writeBlob(blobDir, blobId, data); etag = md5(data)
R2PutWriteBlob ==
    /\ r2Req.op = "put" /\ r2Req.pc = "write"
    /\ LET id == generateBlobId(r2NextBlob)
       IN /\ r2NextBlob' = id
          /\ r2Blobs' = writeBlob(r2Blobs, id, r2Req.data, r2Req.key)
          /\ r2Req' = [r2Req EXCEPT !.pc = "deleteOld", !.blobId = id,
                                    !.etag = R2Etag(r2Req.data),
                                    !.steps = @ \o <<"generate", "write">>]
    /\ UNCHANGED <<r2Rows, r2Resp, r2Last, r2Crashed>>
    /\ UNCHANGED NotR2

\* if (oldRow?.blob_id) deleteBlob(blobDir, oldRow.blob_id)
R2PutDeleteOld ==
    /\ r2Req.op = "put" /\ r2Req.pc = "deleteOld"
    /\ LET oldRow == r2Rows[r2Req.key]
       IN IF oldRow # None /\ oldRow[1].blob_id # None
          THEN /\ r2Blobs' = deleteBlob(r2Blobs, oldRow[1].blob_id[1])
               /\ r2Req' = [r2Req EXCEPT !.pc = "upsert", !.steps = Append(@, "deleteOld")]
          ELSE /\ r2Blobs' = r2Blobs
               /\ r2Req' = [r2Req EXCEPT !.pc = "upsert"]
    /\ UNCHANGED <<r2Rows, r2NextBlob, r2Resp, r2Last, r2Crashed>>
    /\ UNCHANGED NotR2

\* INSERT OR REPLACE INTO _mf_objects (key, blob_id, version, size, etag, ...)
R2PutUpsert ==
    /\ r2Req.op = "put" /\ r2Req.pc = "upsert"
    /\ r2Rows' = [r2Rows EXCEPT ![r2Req.key] =
                     Some([blob_id |-> Some(r2Req.blobId), size |-> Len(r2Req.data),
                           etag |-> r2Req.etag])]
    /\ r2Req' = [r2Req EXCEPT !.pc = "respond", !.steps = Append(@, "upsert")]
    /\ UNCHANGED <<r2Blobs, r2NextBlob, r2Resp, r2Last, r2Crashed>>
    /\ UNCHANGED NotR2

\* return c.json({ success: true, key, size: data.length, etag })
R2PutRespond ==
    /\ r2Req.op = "put" /\ r2Req.pc = "respond"
    /\ r2Resp' = R2Response("put", r2Req.key, 200, <<>>, r2Req.etag, Len(r2Req.data),
                            Some(r2Req.data))
    /\ r2Last' = [r2Last EXCEPT ![r2Req.key] = Some(r2Req.data)]
    /\ r2Req' = Idle
    /\ UNCHANGED <<r2Rows, r2Blobs, r2NextBlob, r2Crashed>>
    /\ UNCHANGED NotR2

\* ---- DELETE /:binding/objects/:key and POST /:binding/bulk-delete ----
R2DeleteBegin(keys) ==
    /\ r2Req = Idle
    /\ r2Req' = [op |-> "delete", pc |-> "blob", keys |-> keys, steps |-> <<>>]
    /\ r2Resp' = NoResp
    /\ UNCHANGED <<r2Rows, r2Blobs, r2NextBlob, r2Last, r2Crashed>>
    /\ UNCHANGED NotR2

\* if (row?.blob_id) deleteBlob(blobDir, row.blob_id)
R2DeleteBlob ==
    /\ r2Req.op = "delete" /\ r2Req.pc = "blob" /\ r2Req.keys # <<>>
    /\ LET k == Head(r2Req.keys)
           row == r2Rows[k]
       IN /\ r2Blobs' = IF row # None /\ row[1].blob_id # None
                        THEN deleteBlob(r2Blobs, row[1].blob_id[1])
                        ELSE r2Blobs
          /\ r2Last' = [r2Last EXCEPT ![k] = None]
    /\ r2Req' = [r2Req EXCEPT !.pc = "row", !.steps = Append(@, "deleteBlob")]
    /\ UNCHANGED <<r2Rows, r2NextBlob, r2Resp, r2Crashed>>
    /\ UNCHANGED NotR2

\* db.prepare(`DELETE FROM _mf_objects WHERE key = ?`).run(key)
R2DeleteRow ==
    /\ r2Req.op = "delete" /\ r2Req.pc = "row"
    /\ r2Rows' = [r2Rows EXCEPT ![Head(r2Req.keys)] = None]
    /\ r2Req' = [r2Req EXCEPT !.pc = "blob", !.keys = Tail(@),
                              !.steps = Append(@, "deleteRow")]
    /\ UNCHANGED <<r2Blobs, r2NextBlob, r2Resp, r2Last, r2Crashed>>
    /\ UNCHANGED NotR2

R2DeleteRespond ==
    /\ r2Req.op = "delete" /\ r2Req.pc = "blob" /\ r2Req.keys = <<>>
    /\ r2Resp' = R2Response("delete", "", 200, <<>>, <<>>, 0, None)
    /\ r2Req' = Idle
    /\ UNCHANGED <<r2Rows, r2Blobs, r2NextBlob, r2Last, r2Crashed>>
    /\ UNCHANGED NotR2

\* ---- GET /:binding/objects/:key ----
\* 404 without a row, without a blob id, or without the blob file; otherwise the
\* file's bytes with ETag = row.etag and Content-Length = row.size
R2GetResponse(k, rows, blobs, last) ==
    LET row == rows[k]
    IN IF row = None \/ row[1].blob_id = None
       THEN R2Response("get", k, 404, <<>>, <<>>, 0, last)
       ELSE LET blobData == readBlob(blobs, row[1].blob_id[1])
            IN IF blobData = None
               THEN R2Response("get", k, 404, <<>>, <<>>, 0, last)
               ELSE R2Response("get", k, 200, blobData[1], EtagHeader(row[1].etag),
                                  row[1].size, last)

R2Get(k) ==
    /\ r2Req = Idle
    /\ r2Resp' = R2GetResponse(k, r2Rows, r2Blobs, r2Last[k])
    /\ UNCHANGED <<r2Rows, r2Blobs, r2NextBlob, r2Req, r2Last, r2Crashed>>
    /\ UNCHANGED NotR2

\* a file-system or database call throws (the catch block answers 500), or the
\* process dies
R2Abort ==
    /\ r2Req # Idle
    /\ r2Req.steps # <<>>
    /\ r2Req' = Idle
    /\ r2Crashed' = TRUE
    /\ r2Resp' = R2Response(r2Req.op, "", 500, <<>>, <<>>, 0, None)
    /\ UNCHANGED <<r2Rows, r2Blobs, r2NextBlob, r2Last>>
    /\ UNCHANGED NotR2

R2PutAny == \E k \in Keys : \E data \in Bodies : R2PutBegin(k, data)
R2DeleteAny == \E keys \in KeyLists : R2DeleteBegin(keys)
R2GetAny == \E k \in Keys : R2Get(k)

R2Next ==
    \/ R2PutAny
    \/ R2PutWriteBlob
    \/ R2PutDeleteOld
    \/ R2PutUpsert
    \/ R2PutRespond
    \/ R2DeleteAny
    \/ R2DeleteBlob
    \/ R2DeleteRow
    \/ R2DeleteRespond
    \/ R2GetAny
    \/ R2Abort

SpecR2 == Init /\ [][R2Next]_vars

Undefined == "<undefined>"
QueryParams == {Undefined, "", "-1", "-99", "1", "1.5", "5000", "Infinity"}

\* JavaScript numbers, as far as the handlers look at them: NaN, Infinity, or a
\* finite value kept in tenths
NaN == [kind |-> "nan", tenths |-> 0]
Infinity == [kind |-> "inf", tenths |-> 0]
Num(tenths) == [kind |-> "num", tenths |-> tenths]

\* Number(value)
Number(value) ==
    CASE value = Undefined -> NaN
      [] value = "" -> Num(0)
      [] value = "-1" -> Num(-10)
      [] value = "-99" -> Num(-990)
      [] value = "1" -> Num(10)
      [] value = "1.5" -> Num(15)
      [] value = "5000" -> Num(50000)
      [] value = "Infinity" -> Infinity

\* Math.floor on a finite value
MathFloor(n) == n.tenths \div 10

\* readPositiveInt: the fallback unless the text is a finite number >= 0
readPositiveInt(value, fallback) ==
    LET parsed == Number(value)
    IN IF parsed.kind # "num" \/ parsed.tenths < 0
       THEN fallback
       ELSE MathFloor(parsed)

\* Number(x) || fallback: the fallback when the number is NaN or 0, otherwise
\* the number as it is
NumberOr(value, fallback) ==
    LET parsed == Number(value)
    IN IF parsed.kind = "nan" \/ (parsed.kind = "num" /\ parsed.tenths = 0)
       THEN Num(fallback * 10)
       ELSE parsed

\* the parameters whose number is an integer (bound to LIMIT ? OFFSET ? as is)
D1Params == {v \in QueryParams :
                Number(v).kind = "nan" \/ (Number(v).kind = "num" /\ Number(v).tenths % 10 = 0)}

\* the value of an integral number
IntegerOf(n) == n.tenths \div 10

MathMin(a, b) == IF a < b THEN a ELSE b

\* defaults and cap of the three listings
D1DefaultLimit == 100
DORowsDefaultLimit == 50
DOKvDefaultLimit == 100
DOMaxLimit == 1000

\* SQLite's LIMIT l OFFSET o over an ordered result: a negative limit means no
\* limit, a negative offset means 0
SqlLimitOffset(rows, limit, offset) ==
    LET o == IF offset < 0 THEN 0 ELSE offset
        rest == IF o >= Len(rows) THEN <<>> ELSE SubSeq(rows, o + 1, Len(rows))
    IN IF limit < 0 \/ limit >= Len(rest) THEN rest ELSE SubSeq(rest, 1, limit)

\* ---- keys of _cf_KV (TEXT) ----
KeyChars == {"a", "A", "_"}
DOKeys == {<<c>> : c \in KeyChars} \cup {<<c, d>> : c \in KeyChars, d \in KeyChars}
PlainDOKeys == {<<"a">>, <<"_">>}

\* the prefix parameter: missing, empty, or a text that may hold % and _
Prefixes ==
    {None, Some(<<>>), Some(<<"a", "_">>), Some(<<"a", "a">>)}
        \cup {Some(<<c>>) : c \in KeyChars \cup {"%"}}

\* code point of a character (BINARY collation of ORDER BY key)
CodePoint(c) ==
    CASE c = "%" -> 37
      [] c = "-" -> 45
      [] c = "/" -> 47
      [] c = "A" -> 65
      [] c = "C" -> 67
      [] c = "D" -> 68
      [] c = "_" -> 95
      [] c = "a" -> 97
      [] c = "b" -> 98
      [] c = "o" -> 111
      [] c = "p" -> 112
      [] c = "s" -> 115

RECURSIVE KeyLess(_, _)
KeyLess(a, b) ==
    IF a = <<>> THEN b # <<>>
    ELSE IF b = <<>> THEN FALSE
    ELSE IF Head(a) = Head(b) THEN KeyLess(Tail(a), Tail(b))
    ELSE CodePoint(Head(a)) < CodePoint(Head(b))

\* ORDER BY key
RECURSIVE OrderByKey(_)
OrderByKey(keys) ==
    IF keys = {} THEN <<>>
    ELSE LET m == CHOOSE x \in keys : \A y \in keys : x = y \/ KeyLess(x, y)
         IN <<m>> \o OrderByKey(keys \ {m})

\* LIKE folds the case of ASCII letters
Lower(c) == IF c = "A" THEN "a" ELSE c

\* text LIKE pattern (no ESCAPE clause): % matches any run of characters, _ any
\* one character, anything else itself up to ASCII case
RECURSIVE SqlLike(_, _)
SqlLike(pattern, text) ==
    IF pattern = <<>> THEN text = <<>>
    ELSE IF Head(pattern) = "%"
         THEN \/ SqlLike(Tail(pattern), text)
              \/ (text # <<>> /\ SqlLike(pattern, Tail(text)))
    ELSE IF text = <<>> THEN FALSE
    ELSE IF Head(pattern) = "_" THEN SqlLike(Tail(pattern), Tail(text))
    ELSE Lower(Head(pattern)) = Lower(Head(text)) /\ SqlLike(Tail(pattern), Tail(text))

ListRequest(limit, offset, prefix) == [limit |-> limit, offset |-> offset, prefix |-> prefix]

ListResponse(op, status, items, limit, offset, total, query, req) ==
    [op |-> op, status |-> status, items |-> items, limit |-> limit, offset |-> offset,
     total |-> total, query |-> query, req |-> req]

ListError(op, status, req) == ListResponse(op, status, <<>>, 0, 0, None, None, req)

\* ---- the stores fill up (the worker writes to them) ----
InsertD1Row ==
    /\ d1Table < MaxRows
    /\ d1Table' = d1Table + 1
    /\ listResp' = NoResp
    /\ UNCHANGED <<doTable, doKv>>
    /\ UNCHANGED NotList

InsertDORow ==
    /\ doTable < MaxRows
    /\ doTable' = doTable + 1
    /\ listResp' = NoResp
    /\ UNCHANGED <<d1Table, doKv>>
    /\ UNCHANGED NotList

\* the actor's storage.put(key, ...): creates _cf_KV on first use
ActorPut(key) ==
    /\ LET table == IF doKv = None THEN {} ELSE doKv[1]
       IN /\ key \notin table
          /\ Cardinality(table) < MaxEntries
          /\ doKv' = Some(table \cup {key})
    /\ listResp' = NoResp
    /\ UNCHANGED <<d1Table, doTable>>
    /\ UNCHANGED NotList

TableRows(n) == [i \in 1..n |-> i]

\* ---- GET /do/:binding/:instanceId/kv ----
DOKvResponse(found, table, limitParam, offsetParam, prefix) ==
    LET req == ListRequest(limitParam, offsetParam, prefix)
        limit == MathMin(readPositiveInt(limitParam, DOKvDefaultLimit), DOMaxLimit)
        offset == readPositiveInt(offsetParam, 0)
    IN IF ~found THEN ListError("dokv", 404, req)
       ELSE IF table = None
       THEN ListResponse("dokv", 200, <<>>, limit, offset, Some(0), None, req)
       ELSE LET filtered == prefix # None /\ prefix[1] # <<>>
                matching == IF filtered
                            THEN {k \in table[1] : SqlLike(prefix[1] \o <<"%">>, k)}
                            ELSE table[1]
                rows == SqlLimitOffset(OrderByKey(matching), limit, offset)
            IN ListResponse("dokv", 200, rows, limit, offset, Some(Cardinality(matching)),
                            Some([limit |-> limit, offset |-> offset]), req)

DOKvList(found, limitParam, offsetParam, prefix) ==
    /\ listResp' = DOKvResponse(found, doKv, limitParam, offsetParam, prefix)
    /\ UNCHANGED <<d1Table, doTable, doKv>>
    /\ UNCHANGED NotList

\* ---- GET /do/:binding/:instanceId/tables/:table/rows ----
ToUpperCase(text) ==
    CASE text = "desc" -> "DESC"
      [] text = "asc" -> "ASC"
      [] OTHER -> text

RECURSIVE Descending(_)
Descending(rows) ==
    IF rows = <<>> THEN <<>> ELSE Append(Descending(Tail(rows)), Head(rows))

SortChoices == {<<Undefined, Undefined>>, <<"id", Undefined>>, <<"id", "desc">>}

DORowsResponse(found, n, limitParam, offsetParam, sortColumn, dir) ==
    LET req == ListRequest(limitParam, offsetParam, None)
        limit == MathMin(readPositiveInt(limitParam, DORowsDefaultLimit), DOMaxLimit)
        offset == readPositiveInt(offsetParam, 0)
        sortDirection == IF dir # Undefined /\ ToUpperCase(dir) = "DESC" THEN "DESC" ELSE "ASC"
        ordered == IF sortColumn # Undefined /\ sortColumn # "" /\ sortDirection = "DESC"
                   THEN Descending(TableRows(n))
                   ELSE TableRows(n)
    IN IF ~found THEN ListError("dorows", 404, req)
       ELSE ListResponse("dorows", 200, SqlLimitOffset(ordered, limit, offset), limit, offset,
                         None, Some([limit |-> limit, offset |-> offset]), req)

DORowsList(found, limitParam, offsetParam, sortColumn, dir) ==
    /\ listResp' = DORowsResponse(found, doTable, limitParam, offsetParam, sortColumn, dir)
    /\ UNCHANGED <<d1Table, doTable, doKv>>
    /\ UNCHANGED NotList

\* ---- GET /:binding/tables/:table/rows (relational) ----
D1RowsResponse(found, n, limitParam, offsetParam) ==
    LET req == ListRequest(limitParam, offsetParam, None)
        limit == IntegerOf(NumberOr(limitParam, D1DefaultLimit))
        offset == IntegerOf(NumberOr(offsetParam, 0))
    IN IF ~found THEN ListError("d1rows", 404, req)
       ELSE ListResponse("d1rows", 200, SqlLimitOffset(TableRows(n), limit, offset), limit,
                         offset, None, Some([limit |-> limit, offset |-> offset]), req)

D1RowsList(found, limitParam, offsetParam) ==
    /\ listResp' = D1RowsResponse(found, d1Table, limitParam, offsetParam)
    /\ UNCHANGED <<d1Table, doTable, doKv>>
    /\ UNCHANGED NotList

\* ---- the prefix listing over every table content ----
ActorPutAny == \E key \in DOKeys : ActorPut(key)

DOKvListPrefix ==
    \E found \in BOOLEAN : \E limitParam \in {Undefined, "1"} :
        \E offsetParam \in {Undefined, "1"} : \E prefix \in Prefixes :
            DOKvList(found, limitParam, offsetParam, prefix)

DOKvNext ==
    \/ ActorPutAny
    \/ DOKvListPrefix

SpecDOKv == Init /\ [][DOKvNext]_vars

\* ---- the three listings over every limit and offset ----
ActorPutPlain == \E key \in PlainDOKeys : ActorPut(key)

\* a request for a store that is not there carries no parameters worth varying
ParamsFor(found, params) == IF found THEN params ELSE {Undefined}

DOKvListPaged ==
    \E found \in BOOLEAN :
        \E limitParam \in ParamsFor(found, QueryParams) :
            \E offsetParam \in ParamsFor(found, QueryParams) :
                DOKvList(found, limitParam, offsetParam, None)

DORowsListAny ==
    \E found \in BOOLEAN :
        \E limitParam \in ParamsFor(found, QueryParams) :
            \E offsetParam \in ParamsFor(found, QueryParams) :
                \E sort \in IF found THEN SortChoices ELSE {<<Undefined, Undefined>>} :
                    DORowsList(found, limitParam, offsetParam, sort[1], sort[2])

D1RowsListAny ==
    \E found \in BOOLEAN :
        \E limitParam \in ParamsFor(found, D1Params) :
            \E offsetParam \in ParamsFor(found, D1Params) :
                D1RowsList(found, limitParam, offsetParam)

PagingNext ==
    \/ InsertD1Row
    \/ InsertDORow
    \/ ActorPutPlain
    \/ DOKvListPaged
    \/ DORowsListAny
    \/ D1RowsListAny

SpecPaging == Init /\ [][PagingNext]_vars

StartsWith(key, prefix) ==
    /\ Len(key) >= Len(prefix)
    /\ SubSeq(key, 1, Len(prefix)) = prefix

\* C9: a prefix listing returns exactly the entries whose key starts with the
\* prefix (in key order, cut by limit and offset), and meta.total is the number
\* of entries whose key starts with the prefix.
C9_PrefixListingExact ==
    (listResp.op = "dokv" /\ listResp.status = 200 /\ listResp.req.prefix # None)
        => LET table == IF doKv = None THEN {} ELSE doKv[1]
               wanted == {k \in table : StartsWith(k, listResp.req.prefix[1])}
           IN /\ listResp.items
                    = SqlLimitOffset(OrderByKey(wanted), listResp.limit, listResp.offset)
              /\ listResp.total = Some(Cardinality(wanted))

IsNegative(param) == Number(param).kind = "num" /\ Number(param).tenths < 0

DefaultLimitOf(op) ==
    CASE op = "d1rows" -> D1DefaultLimit
      [] op = "dorows" -> DORowsDefaultLimit
      [] op = "dokv" -> DOKvDefaultLimit

\* C10: on each of the three paginated listings a request with a negative limit
\* and a negative offset is served with the listing's default limit and offset
\* 0, meta reports these values, and the query receives no negative value.
C10_NegativeClamped ==
    (/\ listResp.op \in {"d1rows", "dorows", "dokv"}
     /\ listResp.status = 200
     /\ IsNegative(listResp.req.limit)
     /\ IsNegative(listResp.req.offset))
        => /\ listResp.limit = DefaultLimitOf(listResp.op)
           /\ listResp.offset = 0
           /\ listResp.query # None
                => (listResp.query[1].limit >= 0 /\ listResp.query[1].offset >= 0)

(***************************************************************************)
(* Actor storage server: directory resolution and the instances route      *)
(***************************************************************************)
\* names are texts over a small alphabet
DirWorkers == {<<"s">>, <<"s", "-", "a">>, <<"o">>}
ManifestNames == {<<"s">>, <<"p">>}
DOClassNames == {<<"C">>, <<"D">>}
DirNames == {w \o <<"-">> \o k : w \in DirWorkers, k \in DOClassNames}
InstanceFiles == {[id |-> <<"a">>, ext |-> ".sqlite"], [id |-> <<"s">>, ext |-> ".sqlite"],
                  [id |-> <<"a">>, ext |-> ".sqlite-wal"]}
DOBindingLists ==
    {<<[binding |-> "COUNTER", className |-> <<"C">>]>>,
     <<[binding |-> "COUNTER", className |-> <<"C">>],
       [binding |-> "OTHER", className |-> <<"D">>]>>}
DOBindingNames == {"COUNTER", "OTHER"}

\* rank of a character in the collation localeCompare uses: punctuation before
\* letters, letters in alphabetical order whatever their case
CollationRank(c) ==
    CASE c = "-" -> 1
      [] c = "a" -> 2
      [] c = "C" -> 3
      [] c = "D" -> 4
      [] c = "o" -> 5
      [] c = "p" -> 6
      [] c = "s" -> 7

\* a.localeCompare(b): negative, zero or positive
RECURSIVE localeCompare(_, _)
localeCompare(a, b) ==
    IF a = <<>> THEN (IF b = <<>> THEN 0 ELSE -1)
    ELSE IF b = <<>> THEN 1
    ELSE IF CollationRank(Head(a)) < CollationRank(Head(b)) THEN -1
    ELSE IF CollationRank(Head(a)) > CollationRank(Head(b)) THEN 1
    ELSE localeCompare(Tail(a), Tail(b))

RECURSIVE InsertSorted(_, _)
InsertSorted(x, sorted) ==
    IF sorted = <<>> THEN <<x>>
    ELSE IF localeCompare(x, Head(sorted)) <= 0 THEN <<x>> \o sorted
    ELSE <<Head(sorted)>> \o InsertSorted(x, Tail(sorted))

\* names.sort((a, b) => a.localeCompare(b)): a stable sort
RECURSIVE LocaleSort(_)
LocaleSort(names) ==
    IF names = <<>> THEN <<>> ELSE InsertSorted(Head(names), LocaleSort(Tail(names)))

\* name.endsWith(suffix)
EndsWith(name, suffix) ==
    /\ Len(name) >= Len(suffix)
    /\ SubSeq(name, Len(name) - Len(suffix) + 1, Len(name)) = suffix

\* array.find(test) on the manifest's actor bindings
RECURSIVE FindBinding(_, _)
FindBinding(list, binding) ==
    IF list = <<>> THEN None
    ELSE IF Head(list).binding = binding THEN Some(Head(list))
    ELSE FindBinding(Tail(list), binding)

RECURSIVE MapNames(_)
MapNames(dirs) == IF dirs = <<>> THEN <<>> ELSE <<Head(dirs).name>> \o MapNames(Tail(dirs))

\* findDODir: listing is readdirSync's result, in the order the file system
\* enumerates it
findDODir(config, binding, listing) ==
    LET doConfigEntry == FindBinding(config.do, binding)
    IN IF doConfigEntry = None THEN None
       ELSE LET suffix == <<"-">> \o doConfigEntry[1].className
                IsCandidate(d) == d.isDir /\ EndsWith(d.name, suffix)
                dirs == SelectSeq(listing, IsCandidate)
                exactName == config.name \o <<"-">> \o doConfigEntry[1].className
                IsExact(d) == d.name = exactName
                exactMatch == SelectSeq(dirs, IsExact)
            IN IF Len(dirs) = 0 THEN None
               ELSE IF exactMatch # <<>> THEN Some(Head(exactMatch).name)
               ELSE IF Len(dirs) = 1 THEN Some(dirs[1].name)
               ELSE Some(LocaleSort(MapNames(dirs))[1])

RECURSIVE SeqOfSet(_)
SeqOfSet(S) ==
    IF S = {} THEN <<>> ELSE LET x == CHOOSE y \in S : TRUE IN <<x>> \o SeqOfSet(S \ {x})

\* listInstances: the ids of the .sqlite files of a directory, sorted
listInstances(files) ==
    LocaleSort(SeqOfSet({f.id : f \in {g \in files : g.ext = ".sqlite"}}))

FilesOf(dirs, name) == UNION {d.files : d \in {e \in dirs : e.name = name}}

\* every order in which readdirSync may enumerate the entries
Enumerations(S) ==
    {order \in [1..Cardinality(S) -> S] : \A i, j \in 1..Cardinality(S) :
                                              i # j => order[i] # order[j]}

\* createDOStorageApp(config)
createDOStorageApp(name, doList) ==
    /\ doConfig = None
    /\ doConfig' = Some([name |-> name, do |-> doList])
    /\ UNCHANGED <<doDirs, doDirResp>>
    /\ UNCHANGED NotDoDir

\* the runtime creates a directory (or something else leaves a file) in v3/do
MakeEntry(name, isDir) ==
    /\ Cardinality(doDirs) < MaxDirs
    /\ \A d \in doDirs : d.name # name
    /\ doDirs' = doDirs \cup {[name |-> name, isDir |-> isDir, files |-> {}]}
    /\ doDirResp' = NoResp
    /\ UNCHANGED doConfig
    /\ UNCHANGED NotDoDir

\* the runtime writes a file of an instance
WriteInstanceFile(name, file) ==
    /\ Cardinality(UNION {{<<d.name, f>> : f \in d.files} : d \in doDirs}) < MaxInstanceFiles
    /\ \E d \in doDirs :
          /\ d.name = name /\ d.isDir /\ file \notin d.files
          /\ doDirs' = (doDirs \ {d}) \cup {[d EXCEPT !.files = @ \cup {file}]}
    /\ doDirResp' = NoResp
    /\ UNCHANGED doConfig
    /\ UNCHANGED NotDoDir

\* GET /do/:binding/instances
DOInstancesResponse(config, binding, listing, dirs) ==
    IF FindBinding(config.do, binding) = None
    THEN [op |-> "instances", status |-> 404, binding |-> binding, dir |-> None,
          instances |-> <<>>]
    ELSE LET dir == findDODir(config, binding, listing)
         IN [op |-> "instances", status |-> 200, binding |-> binding, dir |-> dir,
             instances |-> IF dir = None THEN <<>> ELSE listInstances(FilesOf(dirs, dir[1]))]

DOInstances(binding, listing) ==
    /\ doConfig # None
    /\ doDirResp' = DOInstancesResponse(doConfig[1], binding, listing, doDirs)
    /\ UNCHANGED <<doConfig, doDirs>>
    /\ UNCHANGED NotDoDir

CreateApp == \E name \in ManifestNames : \E doList \in DOBindingLists :
                 createDOStorageApp(name, doList)
MakeAnyEntry == \E name \in DirNames : \E isDir \in BOOLEAN : MakeEntry(name, isDir)
WriteAnyInstanceFile == \E name \in DirNames : \E file \in InstanceFiles :
                            WriteInstanceFile(name, file)
DOInstancesAny == \E binding \in DOBindingNames : \E listing \in Enumerations(doDirs) :
                      DOInstances(binding, listing)

DODirNext ==
    \/ CreateApp
    \/ MakeAnyEntry
    \/ WriteAnyInstanceFile
    \/ DOInstancesAny

SpecDODir == Init /\ [][DODirNext]_vars

\* the candidates of a class among the entries
CandidatesOf(dirs, className) ==
    {d.name : d \in {e \in dirs : e.isDir /\ EndsWith(e.name, <<"-">> \o className)}}

\* the lexicographically smallest of a set of names (character by character)
LexSmallest(names) == CHOOSE x \in names : \A y \in names : x = y \/ KeyLess(x, y)

\* C11: the directory answered for a binding is the candidate named
\* <manifest name>-<className> when there is one, else the only candidate, else
\* the lexicographically smallest candidate, whatever the enumeration order;
\* only that directory's instances are listed.
C11_DirectoryResolution ==
    (doDirResp.op = "instances" /\ doDirResp.status = 200)
        => LET className == FindBinding(doConfig[1].do, doDirResp.binding)[1].className
               candidates == CandidatesOf(doDirs, className)
               exactName == doConfig[1].name \o <<"-">> \o className
               expected == IF candidates = {} THEN None
                           ELSE IF exactName \in candidates THEN Some(exactName)
                           ELSE Some(LexSmallest(candidates))
           IN /\ doDirResp.dir = expected
              /\ expected # None
                   => doDirResp.instances = listInstances(FilesOf(doDirs, expected[1]))
              /\ expected = None => doDirResp.instances = <<>>

(***************************************************************************)
(* Studio API server: discovery of the state files (lib/wrangler-state.ts) *)
(***************************************************************************)
StateTypes == {"d1", "kv", "r2"}

\* file names found in a miniflare-*Object directory
StateFileNames == {<<"a", "b", ".sqlite">>, <<"c", "d", ".sqlite">>,
                   <<"a", "b", ".sqlite", "-wal">>}

\* a declared binding of a type: its name and its resource (kv id, bucket name)
BindingDecl(name, resource) == [binding |-> name, resource |-> resource]

BindingSeqs ==
    {<<>>, <<BindingDecl(<<"D">>, "r1")>>,
     <<BindingDecl(<<"D">>, "r1"), BindingDecl(<<"E">>, "r2")>>}

DOBindingSeqs ==
    {<<>>, <<[name |-> <<"N">>, class_name |-> <<"C">>]>>,
     <<[name |-> <<"O">>, class_name |-> <<"D">>],
       [name |-> <<"N">>, class_name |-> <<"C">>]>>}

\* discoverBindings(config), or <<>> when no config was found
DiscoveredBindings ==
    {None} \cup {Some([d1 |-> b, kv |-> b, r2 |-> b, durableObjects |-> d]) :
                    b \in BindingSeqs, d \in DOBindingSeqs}

DatabaseFile(type, filename) ==
    [path |-> <<type, filename>>, filename |-> filename, binding |-> None, resource |-> None]

RECURSIVE MapDatabaseFile(_, _)
MapDatabaseFile(type, names) ==
    IF names = <<>> THEN <<>>
    ELSE <<DatabaseFile(type, Head(names))>> \o MapDatabaseFile(type, Tail(names))

\* listSqliteFiles: the entries that end with .sqlite, in readdirSync's order
listSqliteFiles(type, listing) ==
    LET IsSqlite(f) == EndsWith(f, <<".sqlite">>)
    IN MapDatabaseFile(type, SelectSeq(listing, IsSqlite))

\* join(classPath, sqliteFile)
DOPath(classDir, file) == <<"do", classDir \o <<"/">> \o file.id \o <<file.ext>>>>

DOFile(classDir, file) ==
    [path |-> DOPath(classDir, file), filename |-> file.id \o <<file.ext>>,
     className |-> classDir, binding |-> None]

RECURSIVE MapDOFile(_, _)
MapDOFile(classDir, files) ==
    IF files = <<>> THEN <<>>
    ELSE <<DOFile(classDir, Head(files))>> \o MapDOFile(classDir, Tail(files))

\* listDOFiles: for every entry of do/, its .sqlite files; an entry that is
\* not a directory throws in readdirSync and is skipped
RECURSIVE listDOFiles(_)
listDOFiles(classDirs) ==
    IF classDirs = <<>> THEN <<>>
    ELSE LET d == Head(classDirs)
             IsSqlite(f) == f.ext = ".sqlite"
             found == IF d.isDir
                      THEN MapDOFile(d.name, SelectSeq(SeqOfSet(d.files), IsSqlite))
                      ELSE <<>>
         IN found \o listDOFiles(Tail(classDirs))

Annotate(file, decl, withResource) ==
    [file EXCEPT !.binding = Some(decl.binding),
                 !.resource = IF withResource THEN Some(decl.resource) ELSE @]

\* files[0].binding = bindings[0].binding
AnnotateFirst(files, decls, withResource) ==
    [files EXCEPT ![1] = Annotate(@, decls[1], withResource)]

\* A mutated positional match that gives every file the first binding.
AnnotateAllWithFirst(files, decls, withResource) ==
    [i \in 1..Len(files) |-> Annotate(files[i], decls[1], withResource)]

\* files.forEach((file, i) => { if (bindings[i]) ... })
AnnotateByIndex(files, decls, withResource) ==
    [i \in 1..Len(files) |->
        IF i <= Len(decls) THEN Annotate(files[i], decls[i], withResource) ELSE files[i]]

\* the relational rule: one file and one binding, else by order
MatchD1(files, decls) ==
    IF Len(files) = 1 /\ Len(decls) = 1 THEN AnnotateFirst(files, decls, FALSE)
    ELSE IF Len(files) > 0 /\ Len(decls) > 0 THEN AnnotateByIndex(files, decls, FALSE)
    ELSE files

\* the key-value and object-store rule: one file and at least one binding,
\* else by order
MatchKvR2(files, decls) ==
    IF Len(files) = 1 /\ Len(decls) >= 1 THEN AnnotateFirst(files, decls, TRUE)
    ELSE IF Len(files) > 0 /\ Len(decls) > 0 THEN AnnotateByIndex(files, decls, TRUE)
    ELSE files

\* bindings.durableObjects.find(b => b.class_name === doFile.className)
RECURSIVE FindByClassName(_, _)
FindByClassName(decls, className) ==
    IF decls = <<>> THEN None
    ELSE IF Head(decls).class_name = className THEN Some(Head(decls))
    ELSE FindByClassName(Tail(decls), className)

MatchDO(doFiles, decls) ==
    [i \in 1..Len(doFiles) |->
        LET matchingBinding == FindByClassName(decls, doFiles[i].className)
        IN IF matchingBinding = None THEN doFiles[i]
           ELSE [doFiles[i] EXCEPT !.binding = Some(matchingBinding[1].name)]]

\* discoverWranglerState(statePath, bindings): listings holds what readdirSync
\* returns for the three type directories and for do/
discoverWranglerState(listings, bindings) ==
    LET d1Files == listSqliteFiles("d1", listings.d1)
        kvFiles == listSqliteFiles("kv", listings.kv)
        r2Files == listSqliteFiles("r2", listings.r2)
        doFiles == listDOFiles(listings.do)
    IN [d1 |-> IF bindings = None THEN d1Files ELSE MatchD1(d1Files, bindings[1].d1),
        kv |-> IF bindings = None THEN kvFiles ELSE MatchKvR2(kvFiles, bindings[1].kv),
        r2 |-> IF bindings = None THEN r2Files ELSE MatchKvR2(r2Files, bindings[1].r2),
        do |-> IF bindings = None \/ Len(bindings[1].durableObjects) = 0 THEN doFiles
               ELSE MatchDO(doFiles, bindings[1].durableObjects)]

\* the runtime creates a file in the directory of a type
WriteStateFile(type, filename) ==
    /\ Cardinality(UNION {{<<t, f>> : f \in diskFiles[t]} : t \in StateTypes}) < MaxStateFiles
    /\ filename \notin diskFiles[type]
    /\ diskFiles' = [diskFiles EXCEPT ![type] = @ \cup {filename}]
    /\ studioResp' = NoResp
    /\ UNCHANGED <<apiServer, conns>>
    /\ UNCHANGED NotStudio

\* the runtime (or the user) removes a file
RemoveStateFile(type, filename) ==
    /\ filename \in diskFiles[type]
    /\ diskFiles' = [diskFiles EXCEPT ![type] = @ \ {filename}]
    /\ studioResp' = NoResp
    /\ UNCHANGED <<apiServer, conns>>
    /\ UNCHANGED NotStudio

\* startApiServer: discoverBindings, discoverWranglerState, createApiApp
startApiServer(bindings, listings) ==
    /\ apiServer = None
    /\ apiServer' = Some([bindings |-> bindings,
                          stateInfo |-> discoverWranglerState(listings, bindings)])
    /\ UNCHANGED <<diskFiles, conns, studioResp>>
    /\ UNCHANGED NotStudio

\* what readdirSync may return for the directories as they are now
Listings ==
    {[d1 |-> a, kv |-> b, r2 |-> c, do |-> d] :
        a \in Enumerations(diskFiles["d1"]), b \in Enumerations(diskFiles["kv"]),
        c \in Enumerations(diskFiles["r2"]), d \in Enumerations(doDirs)}

(***************************************************************************)
(* Studio API server: opening an accessor by binding name                  *)
(***************************************************************************)
\* the :binding parameter of a request
RequestNames == {<<"D">>, <<"E">>, <<"M">>, <<"a">>, <<"0">>, <<"1">>, <<"5">>}

Digits == {"0", "1", "5"}

DigitValue(c) ==
    CASE c = "0" -> 0
      [] c = "1" -> 1
      [] c = "5" -> 5

\* value of the leading run of digits, given the value read so far
RECURSIVE LeadingDigits(_, _)
LeadingDigits(text, acc) ==
    IF text = <<>> \/ Head(text) \notin Digits THEN acc
    ELSE LeadingDigits(Tail(text), acc * 10 + DigitValue(Head(text)))

\* parseInt(text, 10): <<>> stands for NaN
parseInt(text) ==
    IF text = <<>> \/ Head(text) \notin Digits THEN None ELSE Some(LeadingDigits(text, 0))

\* list.find(f => f.binding === binding || f.filename.startsWith(binding))
RECURSIVE FindFile(_, _)
FindFile(list, binding) ==
    IF list = <<>> THEN None
    ELSE IF Head(list).binding = Some(binding) \/ StartsWith(Head(list).filename, binding)
         THEN Some(Head(list))
    ELSE FindFile(Tail(list), binding)

\* list[index] of a JavaScript array (0-based, undefined outside)
ArrayAt(list, index) == IF index + 1 \in 1..Len(list) THEN Some(list[index + 1]) ELSE None

\* the file getDatabase opens: dbFile ?? (isInteger(index) ? list[index] : list[0])
ResolveFile(list, binding) ==
    LET dbFile == FindFile(list, binding)
        index == parseInt(binding)
    IN IF dbFile # None THEN dbFile
       ELSE IF index # None THEN ArrayAt(list, index[1])
       ELSE ArrayAt(list, 0)

getDatabase(list, binding) == ResolveFile(list, binding)

\* what a handler can run into once the file is resolved
Outcomes == {"ok", "pragmaThrows", "queryThrows"}

Connection(route, path) == [route |-> route, path |-> path]

\* new Database(path) / db.close()
openDb(open, connection) == open \cup {connection}
closeDb(open, connection) == open \ {connection}

StudioResponse(type, name, status, opened) ==
    [op |-> "query", type |-> type, name |-> name, status |-> status, opened |-> opened]

\* a route of createD1Routes / createKVRoutes / createR2Routes:
\*   const db = getDatabase(binding); if (!db) return 404
\*   try { ... } catch { return 500 } finally { db.close() }
\* new Database(path) creates the file when it is not there; an exception in
\* getDatabase after the connection is made leaves the handler before the try
StudioQuery(type, name, outcome) ==
    /\ apiServer # None
    /\ LET file == getDatabase(apiServer[1].stateInfo[type], name)
       IN IF file = None
          THEN /\ studioResp' = StudioResponse(type, name, 404, None)
               /\ UNCHANGED <<diskFiles, conns>>
          ELSE /\ diskFiles' = [diskFiles EXCEPT ![type] = @ \cup {file[1].filename}]
               /\ conns' = IF outcome = "pragmaThrows"
                           THEN openDb(conns, Connection(type, file[1].path))
                           ELSE closeDb(openDb(conns, Connection(type, file[1].path)),
                                        Connection(type, file[1].path))
               /\ studioResp' = StudioResponse(type, name,
                                               IF outcome = "ok" THEN 200 ELSE 500,
                                               Some(file[1].path))
    /\ UNCHANGED apiServer
    /\ UNCHANGED NotStudio

\* ---- opening by name over every list of discovered files ----
WriteAnyStateFile == \E type \in StateTypes : \E filename \in StateFileNames :
                         WriteStateFile(type, filename)

StartApiServerPlain ==
    \E bindings \in {b \in DiscoveredBindings :
                        b # None => b[1].durableObjects = <<>>} :
        \E listings \in Listings : startApiServer(bindings, listings)

StudioQueryAny == \E type \in StateTypes : \E name \in RequestNames :
                      StudioQuery(type, name, "ok")

OpenNext ==
    \/ WriteAnyStateFile
    \/ StartApiServerPlain
    \/ StudioQueryAny

SpecOpen == Init /\ [][OpenNext]_vars

\* a name matches a file by binding, by the start of the file name, or as an
\* index into the list
NameMatches(list, name) ==
    \/ FindFile(list, name) # None
    \/ (parseInt(name) # None /\ ArrayAt(list, parseInt(name)[1]) # None)

\* C12: a request whose binding name matches no discovered file is answered
\* 404 and opens no file, even when files of that type exist.
C12_UnknownBindingNotFound ==
    (/\ studioResp.op = "query"
     /\ ~NameMatches(apiServer[1].stateInfo[studioResp.type], studioResp.name))
        => (studioResp.status = 404 /\ studioResp.opened = None)

(***************************************************************************)
(* Connections of the actor-storage routes                                 *)
(***************************************************************************)
\* filename.replace('.sqlite', ''): the first occurrence is removed
RECURSIVE ReplaceSqlite(_)
ReplaceSqlite(filename) ==
    IF filename = <<>> THEN <<>>
    ELSE IF Head(filename) = ".sqlite" THEN Tail(filename)
    ELSE <<Head(filename)>> \o ReplaceSqlite(Tail(filename))

\* stateInfo.durableObjects.find(f => (f.className === x || f.binding === x)
\*                                   && f.filename.replace('.sqlite', '') === id)
RECURSIVE FindDOFile(_, _, _)
FindDOFile(list, classOrBinding, instanceId) ==
    IF list = <<>> THEN None
    ELSE IF /\ (Head(list).className = classOrBinding
                   \/ Head(list).binding = Some(classOrBinding))
            /\ ReplaceSqlite(Head(list).filename) = instanceId
         THEN Some(Head(list))
    ELSE FindDOFile(Tail(list), classOrBinding, instanceId)

\* the file of a discovered instance is still on disk
OnDisk(dirs, path) == \E d \in dirs : d.isDir /\ \E f \in d.files : DOPath(d.name, f) = path

DOStorageOutcomes == {"ok", "noTable", "queryThrows"}

\* GET /:classOrBinding/:instanceId/storage of createDORoutes(stateInfo):
\*   try { const db = new Database(path, { readonly: true }); queries;
\*         db.close(); return 200 } catch { return 500 }
StudioDOStorage(classOrBinding, instanceId, outcome) ==
    /\ apiServer # None
    /\ LET doFile == FindDOFile(apiServer[1].stateInfo.do, classOrBinding, instanceId)
       IN IF doFile = None
          THEN /\ studioResp' = StudioResponse("do", classOrBinding, 404, None)
               /\ conns' = conns
          ELSE IF ~OnDisk(doDirs, doFile[1].path)
          THEN /\ studioResp' = StudioResponse("do", classOrBinding, 500, None)
               /\ conns' = conns
          ELSE LET connection == Connection("do", doFile[1].path)
               IN /\ conns' = IF outcome = "queryThrows"
                              THEN openDb(conns, connection)
                              ELSE closeDb(openDb(conns, connection), connection)
                  /\ studioResp' = StudioResponse("do", classOrBinding,
                                                  IF outcome = "queryThrows" THEN 500 ELSE 200,
                                                  Some(doFile[1].path))
    /\ UNCHANGED <<diskFiles, apiServer>>
    /\ UNCHANGED NotStudio

\* A mutated open that does not look whether the instance file exists.
openInstanceDbUnchecked(config, binding, instanceId, listing, dirs) ==
    LET dir == findDODir(config, binding, listing)
    IN IF dir = None THEN None
       ELSE Some(DOPath(dir[1], [id |-> instanceId, ext |-> ".sqlite"]))

\* openInstanceDb: findDODir, then the instance file must exist
openInstanceDb(config, binding, instanceId, listing, dirs) ==
    LET dir == findDODir(config, binding, listing)
    IN IF dir = None THEN None
       ELSE IF [id |-> instanceId, ext |-> ".sqlite"] \notin FilesOf(dirs, dir[1]) THEN None
       ELSE Some(DOPath(dir[1], [id |-> instanceId, ext |-> ".sqlite"]))

DOQueryOutcomes == {"ok", "noSql", "queryThrows"}

\* POST /do/:binding/:instanceId/query of the actor storage server:
\*   const db = openInstanceDb(...); if (!db) return 404
\*   try { ... 400 / 200 } catch { 500 } finally { db.close() }
DOServerQuery(binding, instanceId, listing, outcome) ==
    /\ doConfig # None
    /\ LET db == openInstanceDb(doConfig[1], binding, instanceId, listing, doDirs)
       IN IF db = None
          THEN /\ doDirResp' = [op |-> "query", status |-> 404, binding |-> binding,
                                dir |-> None, instances |-> <<>>]
               /\ conns' = conns
          ELSE /\ doDirResp' = [op |-> "query",
                                status |-> CASE outcome = "ok" -> 200
                                             [] outcome = "noSql" -> 400
                                             [] outcome = "queryThrows" -> 500,
                                binding |-> binding, dir |-> Some(db[1][2]),
                                instances |-> <<instanceId>>]
               /\ conns' = closeDb(openDb(conns, Connection("doserver", db[1])),
                                   Connection("doserver", db[1]))
    /\ UNCHANGED <<doConfig, doDirs>>
    /\ UNCHANGED <<diskFiles, apiServer, studioResp>>
    /\ UNCHANGED <<shadowVars, kvVars, r2Vars, listVars, bridgeVars, resolveVars, findVars, sqlVars, r2ListVars,
                   kvListVars, putVars, logVars>>

\* ---- requests of every accessor, succeeding and failing ----
InstanceIds == {<<"a">>, <<"s">>}
ConnDirNames == {<<"s", "-", "C">>, <<"C">>}

WriteConnStateFile == \E filename \in {<<"a", "b", ".sqlite">>} : WriteStateFile("d1", filename)
MakeConnEntry == \E name \in ConnDirNames : MakeEntry(name, TRUE)
WriteConnInstanceFile ==
    \E name \in ConnDirNames : WriteInstanceFile(name, [id |-> <<"a">>, ext |-> ".sqlite"])
CreateConnApp == createDOStorageApp(<<"s">>, <<[binding |-> "COUNTER", className |-> <<"C">>]>>)
StartApiServerAny ==
    \E bindings \in {b \in DiscoveredBindings : b # None => Len(b[1].d1) = Len(b[1].durableObjects)} :
        \E listings \in Listings : startApiServer(bindings, listings)
StudioQueryConn == \E name \in {<<"D">>} : \E outcome \in Outcomes :
                       StudioQuery("d1", name, outcome)
StudioDOStorageAny ==
    \E classOrBinding \in {<<"C">>, <<"N">>} : \E instanceId \in InstanceIds :
        \E outcome \in DOStorageOutcomes : StudioDOStorage(classOrBinding, instanceId, outcome)
DOServerQueryAny ==
    \E binding \in {"COUNTER"} : \E instanceId \in InstanceIds :
        \E listing \in Enumerations(doDirs) : \E outcome \in DOQueryOutcomes :
            DOServerQuery(binding, instanceId, listing, outcome)

ConnNext ==
    \/ WriteConnStateFile
    \/ MakeConnEntry
    \/ WriteConnInstanceFile
    \/ CreateConnApp
    \/ StartApiServerAny
    \/ StudioQueryConn
    \/ StudioDOStorageAny
    \/ DOServerQueryAny

SpecConn == Init /\ [][ConnNext]_vars

\* C13: whatever requests were served, successfully or not, no connection
\* opened by a finished request is still open.
C13_NoConnectionLeftOpen == conns = {}

(***************************************************************************)
(* Sidecar worker: actor-storage routes bridged to the host-side listener  *)
(***************************************************************************)
\* route parameters, as Hono hands them over (already URL-decoded)
BridgeParams == {<<"a">>, <<"a", "/", " ">>}
BridgeTables == {<<"a">>, <<"?">>}

\* c.req.url: "U" stands for everything before the query string
BridgeUrls == {<<"U">>, <<"U", "?", "l", "=", "1">>, <<"U", "?", "p", "=", "a", "?", "b">>}

\* bodies of a POST, in bytes
BridgeBodies == {<<"31">>, <<"F0", "90", "80", "80">>, <<"FF">>}

\* responses of the host-side listener
HostResponses == {[status |-> 200, body |-> "result"], [status |-> 404, body |-> "not found"],
                  [status |-> 500, body |-> "error"]}

EncodeChar(c) ==
    CASE c = "/" -> "%2F"
      [] c = " " -> "%20"
      [] c = "?" -> "%3F"
      [] OTHER -> c

RECURSIVE encodeURIComponent(_)
encodeURIComponent(text) ==
    IF text = <<>> THEN <<>>
    ELSE <<EncodeChar(Head(text))>> \o encodeURIComponent(Tail(text))

\* text.split(sep): piece is the segment being read
RECURSIVE SplitFrom(_, _, _)
SplitFrom(text, sep, piece) ==
    IF text = <<>> THEN <<piece>>
    ELSE IF Head(text) = sep THEN <<piece>> \o SplitFrom(Tail(text), sep, <<>>)
    ELSE SplitFrom(Tail(text), sep, Append(piece, Head(text)))

Split(text, sep) == SplitFrom(text, sep, <<>>)

\* c.req.url.split('?')[1] || ''
QueryString(url) ==
    LET second == ArrayAt(Split(url, "?"), 1)
    IN IF second = None THEN <<>> ELSE second[1]

\* `${qs ? `?${qs}` : ''}`
QuerySuffix(qs) == IF qs = <<>> THEN <<>> ELSE <<"?">> \o qs

\* the path each route asks the listener for
BridgePath(req) ==
    LET b == encodeURIComponent(req.binding)
        i == encodeURIComponent(req.instanceId)
        t == encodeURIComponent(req.table)
        qs == QueryString(req.url)
    IN CASE req.route = "instances" -> <<"/do/">> \o b \o <<"/instances">>
         [] req.route = "schema" -> <<"/do/">> \o b \o <<"/">> \o i \o <<"/schema">>
         [] req.route = "table" -> <<"/do/">> \o b \o <<"/">> \o i \o <<"/tables/">> \o t
         [] req.route = "rows" ->
                <<"/do/">> \o b \o <<"/">> \o i \o <<"/tables/">> \o t \o <<"/rows">>
                    \o QuerySuffix(qs)
         [] req.route = "query" -> <<"/do/">> \o b \o <<"/">> \o i \o <<"/query">>
         [] req.route = "kv" -> <<"/do/">> \o b \o <<"/">> \o i \o <<"/kv">> \o QuerySuffix(qs)

BridgeMethod(req) == IF req.route = "query" THEN "POST" ELSE "GET"

\* await c.req.text(), sent again by fetch as UTF-8
BridgeBody(req) == IF req.route = "query" THEN Utf8Encode(Utf8Decode(req.body)) ELSE <<>>

BridgeRequest(route, binding, instanceId, table, url, body) ==
    [route |-> route, binding |-> binding, instanceId |-> instanceId, table |-> table,
     url |-> url, body |-> body]

\* the requests of the six routes; a parameter a route does not have is empty
BridgeRequests ==
    {BridgeRequest("instances", b, <<>>, <<>>, <<"U">>, <<>>) : b \in BridgeParams}
    \cup {BridgeRequest("schema", b, i, <<>>, <<"U">>, <<>>) : b \in BridgeParams, i \in BridgeParams}
    \cup {BridgeRequest("table", b, <<"a">>, t, <<"U">>, <<>>) : b \in BridgeParams, t \in BridgeTables}
    \cup {BridgeRequest("rows", <<"a">>, i, t, u, <<>>) :
             i \in BridgeParams, t \in BridgeTables, u \in BridgeUrls}
    \cup {BridgeRequest("query", b, <<"a">>, <<>>, <<"U">>, body) :
             b \in BridgeParams, body \in BridgeBodies}
    \cup {BridgeRequest("kv", b, <<"a">>, <<>>, u, <<>>) : b \in BridgeParams, u \in BridgeUrls}

\* A mutated answer that blames the request.
UnavailableAsNotFound(req) == [status |-> 404, body |-> "DO storage server not available"]

\* c.json({ error: 'DO storage server not available' }, 503)
Unavailable(req) == [status |-> 503, body |-> "DO storage server not available"]

BridgeResponse(req, cause, answer) ==
    [op |-> "bridge", req |-> req, cause |-> cause, status |-> answer.status,
     body |-> answer.body]

\* a bridged route is entered: parameters read, path built
BridgeBegin(req, configured) ==
    /\ bridgeReq = Idle
    /\ bridgeReq' = [op |-> "bridge", req |-> req, configured |-> configured,
                     method |-> BridgeMethod(req), path |-> BridgePath(req),
                     body |-> BridgeBody(req)]
    /\ bridgeResp' = NoResp
    /\ hostReceived' = NoResp
    /\ UNCHANGED NotBridge

\* proxyToStorageServer: if (!baseUrl) return null
BridgeNoUrl ==
    /\ bridgeReq # Idle /\ ~bridgeReq.configured
    /\ bridgeResp' = BridgeResponse(bridgeReq.req, "noUrl", Unavailable(bridgeReq.req))
    /\ bridgeReq' = Idle
    /\ UNCHANGED hostReceived
    /\ UNCHANGED NotBridge

\* proxyToStorageServer: fetch rejects, catch { return null }
BridgeFetchFails ==
    /\ bridgeReq # Idle /\ bridgeReq.configured
    /\ bridgeResp' = BridgeResponse(bridgeReq.req, "fetchFailed", Unavailable(bridgeReq.req))
    /\ bridgeReq' = Idle
    /\ UNCHANGED hostReceived
    /\ UNCHANGED NotBridge

\* proxyToStorageServer: fetch resolves; if (resp) return resp
BridgeFetchResponds(answer) ==
    /\ bridgeReq # Idle /\ bridgeReq.configured
    /\ hostReceived' = [op |-> "received", method |-> bridgeReq.method,
                        path |-> bridgeReq.path, body |-> bridgeReq.body,
                        answer |-> answer]
    /\ bridgeResp' = BridgeResponse(bridgeReq.req, "host", answer)
    /\ bridgeReq' = Idle
    /\ UNCHANGED NotBridge

BridgeBeginAny == \E req \in BridgeRequests : \E configured \in BOOLEAN :
                      BridgeBegin(req, configured)
BridgeFetchRespondsAny == \E answer \in HostResponses : BridgeFetchResponds(answer)

BridgeNext ==
    \/ BridgeBeginAny
    \/ BridgeNoUrl
    \/ BridgeFetchFails
    \/ BridgeFetchRespondsAny

SpecBridge == Init /\ [][BridgeNext]_vars

\* C14: when the listener's address is not configured or the request to it
\* fails, the bridged route (any of the six) answers 503 and is finished; a
\* route that is still being handled can always take its next step.
C14_UnavailableIs503 ==
    /\ (bridgeResp.op = "bridge" /\ bridgeResp.cause \in {"noUrl", "fetchFailed"})
          => (bridgeResp.status = 503 /\ bridgeReq = Idle /\ hostReceived = NoResp)
    /\ bridgeReq # Idle
          => IF bridgeReq.configured THEN ENABLED BridgeFetchFails ELSE ENABLED BridgeNoUrl

\* the SQL query route answered 503 because the request to the listener failed
C14_Witness ==
    /\ bridgeResp.op = "bridge" /\ bridgeResp.req.route = "query"
    /\ bridgeResp.cause = "fetchFailed" /\ bridgeResp.status = 503

\* what the listener should be asked for: escaped identifiers, then the query
\* string exactly as it was received
ForwardedPath(req) ==
    LET b == encodeURIComponent(req.binding)
        i == encodeURIComponent(req.instanceId)
        t == encodeURIComponent(req.table)
        qs == IF Len(req.url) > 1 THEN SubSeq(req.url, 2, Len(req.url)) ELSE <<>>
    IN CASE req.route = "instances" -> <<"/do/">> \o b \o <<"/instances">>
         [] req.route = "schema" -> <<"/do/">> \o b \o <<"/">> \o i \o <<"/schema">>
         [] req.route = "table" -> <<"/do/">> \o b \o <<"/">> \o i \o <<"/tables/">> \o t
         [] req.route = "rows" ->
                <<"/do/">> \o b \o <<"/">> \o i \o <<"/tables/">> \o t \o <<"/rows">> \o qs
         [] req.route = "query" -> <<"/do/">> \o b \o <<"/">> \o i \o <<"/query">>
         [] req.route = "kv" -> <<"/do/">> \o b \o <<"/">> \o i \o <<"/kv">> \o qs

\* C15: with the listener reachable, it receives the same method, the path
\* /do/<binding>/<instanceId>/... with escaped identifiers, the query string and
\* the body exactly as sent, and its response is returned unmodified.
C15_ForwardedVerbatim ==
    (bridgeResp.op = "bridge" /\ bridgeResp.cause = "host")
        => /\ hostReceived.method = (IF bridgeResp.req.route = "query" THEN "POST" ELSE "GET")
           /\ hostReceived.path = ForwardedPath(bridgeResp.req)
           /\ hostReceived.body = bridgeResp.req.body
           /\ bridgeResp.status = hostReceived.answer.status
           /\ bridgeResp.body = hostReceived.answer.body

(***************************************************************************)
(* Studio API server: file lists while the runtime changes the directory   *)
(***************************************************************************)
RECURSIVE MapFilename(_)
MapFilename(files) ==
    IF files = <<>> THEN <<>> ELSE <<Head(files).filename>> \o MapFilename(Tail(files))

\* GET /api/<type>/: the files of stateInfo, the object createApiApp handed to
\* the routes when the server started
StudioList(type) ==
    /\ apiServer # None
    /\ studioResp' = [op |-> "list", type |-> type,
                      files |-> MapFilename(apiServer[1].stateInfo[type])]
    /\ UNCHANGED <<diskFiles, apiServer, conns>>
    /\ UNCHANGED NotStudio

RefreshFileNames == {<<"a", "b", ".sqlite">>, <<"c", "d", ".sqlite">>}

WriteRefreshStateFile == \E type \in StateTypes : \E filename \in RefreshFileNames :
                             WriteStateFile(type, filename)
RemoveAnyStateFile == \E type \in StateTypes : \E filename \in RefreshFileNames :
                          RemoveStateFile(type, filename)
StartApiServerNoConfig == \E listings \in Listings : startApiServer(None, listings)
StudioListAny == \E type \in StateTypes : StudioList(type)
StudioQueryRefresh == \E type \in StateTypes : StudioQuery(type, <<"a">>, "ok")

RefreshNext ==
    \/ WriteRefreshStateFile
    \/ RemoveAnyStateFile
    \/ StartApiServerNoConfig
    \/ StudioListAny
    \/ StudioQueryRefresh

SpecRefresh == Init /\ [][RefreshNext]_vars

RangeOf(list) == {list[i] : i \in 1..Len(list)}

\* C16: a listing shows exactly the state files that are in the directory when
\* the request is made, and an open-by-binding request opens a file only if it
\* is there at that moment.
C16_ListRebuiltPerRequest ==
    /\ studioResp.op = "list"
          => RangeOf(studioResp.files) = {f \in diskFiles[studioResp.type] :
                                              EndsWith(f, <<".sqlite">>)}
    /\ (studioResp.op = "query" /\ studioResp.status = 404)
          => ~(\E f \in diskFiles[studioResp.type] : StartsWith(f, studioResp.name))

(***************************************************************************)
(* discoverWranglerState: files matched to the declared bindings           *)
(***************************************************************************)
DiscoverNext ==
    \/ WriteAnyStateFile
    \/ StartApiServerPlain
    \/ StudioListAny

SpecDiscover == Init /\ [][DiscoverNext]_vars

\* the declared bindings of a type, none when no config was found
DeclaredOf(type) ==
    IF apiServer[1].bindings = None THEN <<>> ELSE apiServer[1].bindings[1][type]

\* C17: per type, file i carries binding i of the declaration whenever both
\* exist (one file with one binding included), a file beyond the declared
\* bindings carries none, and no binding is carried by two files.
C17_MatchedByPosition ==
    apiServer # None =>
        \A type \in StateTypes :
            LET files == apiServer[1].stateInfo[type]
                decls == DeclaredOf(type)
            IN /\ \A i \in 1..Len(files) :
                      IF i <= Len(decls)
                      THEN files[i].binding = Some(decls[i].binding)
                      ELSE files[i].binding = None
               /\ \A i, j \in 1..Len(files) :
                      (i # j /\ files[i].binding # None)
                          => files[i].binding # files[j].binding

\* two relational files and two declared bindings, matched in order
C17_Witness ==
    /\ apiServer # None
    /\ Len(apiServer[1].stateInfo["d1"]) = 2
    /\ Len(DeclaredOf("d1")) = 2
    /\ apiServer[1].stateInfo["d1"][1].binding = Some(<<"D">>)
    /\ apiServer[1].stateInfo["d1"][2].binding = Some(<<"E">>)

(***************************************************************************)
(* discoverWranglerState: actor-storage files matched by class name        *)
(***************************************************************************)
RECURSIVE MapInstance(_)
MapInstance(doFiles) ==
    IF doFiles = <<>> THEN <<>>
    ELSE <<[id |-> ReplaceSqlite(Head(doFiles).filename),
            className |-> Head(doFiles).className,
            binding |-> Head(doFiles).binding]>> \o MapInstance(Tail(doFiles))

\* GET /api/do/instances
StudioDOInstances ==
    /\ apiServer # None
    /\ studioResp' = [op |-> "instances",
                      instances |-> MapInstance(apiServer[1].stateInfo["do"])]
    /\ UNCHANGED <<diskFiles, apiServer, conns>>
    /\ UNCHANGED NotStudio

\* entries of do/: <service>-<className> directories and a bare class name
ClassDirNames == {<<"s", "-", "C">>, <<"o", "-", "D">>, <<"C">>}

MakeClassEntry == \E name \in ClassDirNames : \E isDir \in BOOLEAN : MakeEntry(name, isDir)
WriteClassInstanceFile ==
    \E name \in ClassDirNames :
        \E file \in {[id |-> <<"a">>, ext |-> ".sqlite"], [id |-> <<"a">>, ext |-> ".sqlite-wal"]} :
            WriteInstanceFile(name, file)
StartApiServerDO ==
    \E bindings \in {b \in DiscoveredBindings : b # None => b[1].d1 = <<>>} :
        \E listings \in Listings : startApiServer(bindings, listings)

DiscoverDONext ==
    \/ MakeClassEntry
    \/ WriteClassInstanceFile
    \/ StartApiServerDO
    \/ StudioDOInstances

SpecDiscoverDO == Init /\ [][DiscoverDONext]_vars

\* C18: an instance file under a directory <service>-<className> carries the
\* binding whose declared class name is <className>, whatever the service.
C18_MatchedByClassName ==
    (apiServer # None /\ apiServer[1].bindings # None) =>
        \A i \in 1..Len(apiServer[1].stateInfo["do"]) :
            \A k \in 1..Len(apiServer[1].bindings[1].durableObjects) :
                LET file == apiServer[1].stateInfo["do"][i]
                    decl == apiServer[1].bindings[1].durableObjects[k]
                IN (Len(file.className) > Len(decl.class_name) + 1
                    /\ EndsWith(file.className, <<"-">> \o decl.class_name))
                       => file.binding = Some(decl.name)

(***************************************************************************)
(* resolveAllConfigs: the root config and the configs it references        *)
(***************************************************************************)
MaxRefConfigs == 3

\* worker names: the root's and those of the other configs
RootName == "r"
WorkerNames == {"a", "b", "c"}

\* the references a config declares: remote actor bindings (script_name, or
\* none for a local class), workflows and services
NoRefs == [durable_objects |-> <<>>, workflows |-> <<>>, services |-> <<>>]
RefsAB == [durable_objects |-> <<Some("a"), None>>, workflows |-> <<>>, services |-> <<"b">>]
RefsCR == [durable_objects |-> <<>>, workflows |-> <<Some("c")>>, services |-> <<"c", "r">>]
RefChoices == {NoRefs, RefsAB, RefsCR}

\* a config file that parses, and one on which parseWranglerConfig throws
WranglerConfigOf(name, refs) ==
    [name |-> name, durable_objects |-> refs.durable_objects,
     workflows |-> refs.workflows, services |-> refs.services, parses |-> TRUE]

MalformedFile ==
    [name |-> "", durable_objects |-> <<>>, workflows |-> <<>>, services |-> <<>>,
     parses |-> FALSE]

\* names.add(x): a Set keeps the order of first insertion
SetAdd(names, x) ==
    IF \E i \in 1..Len(names) : names[i] = x THEN names ELSE Append(names, x)

RECURSIVE AddScriptNames(_, _)
AddScriptNames(names, decls) ==
    IF decls = <<>> THEN names
    ELSE AddScriptNames(IF Head(decls) = None THEN names ELSE SetAdd(names, Head(decls)[1]),
                        Tail(decls))

RECURSIVE AddServices(_, _)
AddServices(names, services) ==
    IF services = <<>> THEN names
    ELSE AddServices(SetAdd(names, Head(services)), Tail(services))

extractReferencedScriptNames(config) ==
    AddServices(AddScriptNames(AddScriptNames(<<>>, config.durable_objects),
                               config.workflows),
                config.services)

\* what an exception leaving findWranglerConfigByName is written as
Thrown == <<0>>

\* A mutated candidate test without the try/catch around the parse.
CandidateUncaught(file, name) ==
    IF ~file.parses THEN "throw" ELSE IF file.name = name THEN "match" ELSE "skip"

\* try { config = parseWranglerConfig(configPath); if (config.name === name)
\* return configPath } catch { skip }
Candidate(file, name) ==
    IF ~file.parses THEN "skip" ELSE IF file.name = name THEN "match" ELSE "skip"

\* findWranglerConfigByName: the first config, in search order, whose name
\* field is the name; the path of a config is its position in the tree
RECURSIVE FindFrom(_, _, _)
FindFrom(tree, name, i) ==
    IF i > Len(tree) THEN None
    ELSE IF Candidate(tree[i], name) = "match" THEN Some(i)
    ELSE IF Candidate(tree[i], name) = "throw" THEN Thrown
    ELSE FindFrom(tree, name, i + 1)

findWranglerConfigByName(tree, name) == FindFrom(tree, name, 1)

\* the configs other than the root
OtherChoices ==
    {WranglerConfigOf("a", RefsAB), WranglerConfigOf("a", RefsCR),
     WranglerConfigOf("b", RefsAB), WranglerConfigOf("b", NoRefs),
     WranglerConfigOf("c", RefsAB), MalformedFile}

\* the config trees: the root config first (its directory is searched first),
\* then up to MaxRefConfigs other configs
RECURSIVE OtherConfigs(_)
OtherConfigs(n) ==
    IF n = 0 THEN {<<>>}
    ELSE OtherConfigs(n - 1)
         \cup {Append(t, config) :
                  t \in {u \in OtherConfigs(n - 1) : Len(u) = n - 1},
                  config \in OtherChoices}

ConfigTrees ==
    {<<WranglerConfigOf(RootName, refs)>> \o others :
        refs \in RefChoices, others \in OtherConfigs(MaxRefConfigs)}

RootPath == 1

\* A mutated visited set that starts empty.
SeenNothing(resolvedPath) == {}

\* new Set<string>([resolvedPath])
SeenRoot(resolvedPath) == {resolvedPath}

ResultEntry(tree, path) == [path |-> path, config |-> tree[path]]

\* scriptNames.push(transitiveName) for the names not yet included
RECURSIVE PushTransitive(_, _)
PushTransitive(names, transitive) ==
    IF transitive = <<>> THEN names
    ELSE PushTransitive(SetAdd(names, Head(transitive)), Tail(transitive))

\* resolveAllConfigs up to the loop: the root is parsed and recorded; the
\* command line calls it once
ResolveBegin(tree) ==
    /\ resolvePc = "idle"
    /\ configTree' = tree
    /\ resultList' = <<ResultEntry(tree, RootPath)>>
    /\ seenSet' = SeenRoot(RootPath)
    /\ scriptNames' = extractReferencedScriptNames(tree[RootPath])
    /\ nameIndex' = 1
    /\ resolvePc' = "loop"
    /\ UNCHANGED NotResolve

\* one iteration of for (const name of scriptNames)
ResolveStep ==
    /\ resolvePc = "loop"
    /\ nameIndex <= Len(scriptNames)
    /\ LET name == scriptNames[nameIndex]
           configPath == findWranglerConfigByName(configTree, name)
       IN IF configPath = Thrown
          THEN \* an exception of the search leaves resolveAllConfigs
               /\ resolvePc' = "threw"
               /\ UNCHANGED <<seenSet, resultList, scriptNames, nameIndex>>
          ELSE IF configPath # None /\ configPath[1] \notin seenSet
          THEN IF ~configTree[configPath[1]].parses
               THEN \* parseWranglerConfig(configPath) throws, after seen.add
                    /\ seenSet' = seenSet \cup {configPath[1]}
                    /\ resolvePc' = "threw"
                    /\ UNCHANGED <<resultList, scriptNames, nameIndex>>
               ELSE /\ seenSet' = seenSet \cup {configPath[1]}
                    /\ resultList' = Append(resultList,
                                            ResultEntry(configTree, configPath[1]))
                    /\ scriptNames' = PushTransitive(scriptNames,
                                          extractReferencedScriptNames(configTree[configPath[1]]))
                    /\ nameIndex' = nameIndex + 1
                    /\ UNCHANGED resolvePc
          ELSE /\ nameIndex' = nameIndex + 1
               /\ UNCHANGED <<seenSet, resultList, scriptNames, resolvePc>>
    /\ UNCHANGED configTree
    /\ UNCHANGED NotResolve

\* the iterator is exhausted: return results
ResolveReturn ==
    /\ resolvePc = "loop"
    /\ nameIndex > Len(scriptNames)
    /\ resolvePc' = "done"
    /\ UNCHANGED <<configTree, resultList, seenSet, scriptNames, nameIndex>>
    /\ UNCHANGED NotResolve

ResolveBeginAny == resolvePc = "idle" /\ \E tree \in ConfigTrees : ResolveBegin(tree)

ResolveNext ==
    \/ ResolveBeginAny
    \/ ResolveStep
    \/ ResolveReturn

SpecResolve == Init /\ [][ResolveNext]_vars

\* the call runs to its end once started
SpecResolveFair == Init /\ [][ResolveNext]_vars /\ WF_vars(ResolveStep) /\ WF_vars(ResolveReturn)

\* the paths a set of paths references through names that resolve
ReferencedBy(tree, paths) ==
    {findWranglerConfigByName(tree, n)[1] :
        n \in {m \in WorkerNames \cup {RootName} :
                  /\ findWranglerConfigByName(tree, m) # None
                  /\ \E p \in paths :
                        \E i \in 1..Len(extractReferencedScriptNames(tree[p])) :
                            extractReferencedScriptNames(tree[p])[i] = m}}

RECURSIVE ReachableFrom(_, _)
ReachableFrom(tree, paths) ==
    IF ReferencedBy(tree, paths) \subseteq paths THEN paths
    ELSE ReachableFrom(tree, paths \cup ReferencedBy(tree, paths))

ResultPaths == [i \in 1..Len(resultList) |-> resultList[i].path]

ResolvedOK ==
    resolvePc = "done" =>
        /\ ResultPaths[1] = RootPath
        /\ \A i, j \in 1..Len(ResultPaths) : i # j => ResultPaths[i] # ResultPaths[j]
        /\ ReachableFrom(configTree, {RootPath}) \subseteq RangeOf(ResultPaths)
        /\ \A i \in 1..Len(resultList) : resultList[i].config = configTree[resultList[i].path]

\* C19: a call of resolveAllConfigs always returns, cycles and self-references
\* included; the result starts with the root, holds each path at most once
\* and holds every config reachable from the root through resolving names.
C19_ResolveTerminates ==
    /\ []ResolvedOK
    /\ (resolvePc = "loop") ~> (resolvePc = "done")

\* a call returned with four configs over a root that refers to itself and a
\* cycle a -> b -> a
C19_Witness ==
    /\ resolvePc = "done"
    /\ Len(resultList) = 4
    /\ \E p \in 1..Len(configTree) :
          \E i \in 1..Len(extractReferencedScriptNames(configTree[p])) :
              extractReferencedScriptNames(configTree[p])[i] = RootName
    /\ \E p, q \in 2..Len(configTree) :
          /\ p # q
          /\ q \in ReferencedBy(configTree, {p})
          /\ p \in ReferencedBy(configTree, {q})

\* root-first, depth-first: a config is followed by everything it reaches
\* before the next reference of its parent is taken
RECURSIVE DepthFirst(_, _, _)
DepthFirst(tree, order, names) ==
    IF names = <<>> THEN order
    ELSE LET configPath == findWranglerConfigByName(tree, Head(names))
         IN IF configPath = None \/ configPath[1] \in RangeOf(order)
            THEN DepthFirst(tree, order, Tail(names))
            ELSE DepthFirst(tree,
                            DepthFirst(tree, Append(order, configPath[1]),
                                       extractReferencedScriptNames(tree[configPath[1]])),
                            Tail(names))

\* C20: the returned list is in root-first, depth-first order over references.
C20_DepthFirstOrder ==
    resolvePc = "done" =>
        ResultPaths = DepthFirst(configTree, <<RootPath>>,
                                 extractReferencedScriptNames(configTree[RootPath]))

(***************************************************************************)
(* findWranglerState: the state directory of the nearest ancestor          *)
(***************************************************************************)
MaxDepth == 7
SearchLevels == 5

\* dirname(dir): the parent, the filesystem root being its own parent
dirname(level) == IF level = 0 THEN 0 ELSE level - 1

\* findWranglerState(startDir), before the loop
FindBegin(start, dirs) ==
    /\ findPc = "idle"
    /\ stateDirs' = dirs
    /\ startDir' = start
    /\ currentDir' = start
    /\ hopIndex' = 0
    /\ findResult' = None
    /\ findPc' = "loop"
    /\ UNCHANGED NotFind

\* one iteration of for (let i = 0; i < 5; i++)
FindStep ==
    /\ findPc = "loop"
    /\ hopIndex < SearchLevels
    /\ IF currentDir \in stateDirs
       THEN /\ findResult' = Some(currentDir)
            /\ findPc' = "done"
            /\ UNCHANGED <<currentDir, hopIndex>>
       ELSE IF dirname(currentDir) = currentDir
       THEN /\ findPc' = "done"
            /\ UNCHANGED <<currentDir, hopIndex, findResult>>
       ELSE /\ currentDir' = dirname(currentDir)
            /\ hopIndex' = hopIndex + 1
            /\ UNCHANGED <<findResult, findPc>>
    /\ UNCHANGED <<stateDirs, startDir>>
    /\ UNCHANGED NotFind

\* the loop ends: return null
FindGiveUp ==
    /\ findPc = "loop"
    /\ hopIndex >= SearchLevels
    /\ findPc' = "done"
    /\ UNCHANGED <<stateDirs, startDir, currentDir, hopIndex, findResult>>
    /\ UNCHANGED NotFind

FindBeginAny ==
    findPc = "idle" /\ \E start \in 0..MaxDepth : \E dirs \in SUBSET (0..start) :
                           Cardinality(dirs) <= 2 /\ FindBegin(start, dirs)

FindNext ==
    \/ FindBeginAny
    \/ FindStep
    \/ FindGiveUp

SpecFind == Init /\ [][FindNext]_vars

\* the nearest directory, at or above the start, that holds a state directory
NearestWithin(hops) ==
    LET near == {d \in stateDirs : d <= startDir /\ startDir - d <= hops}
    IN IF near = {} THEN None ELSE Some(CHOOSE d \in near : \A e \in near : e <= d)

\* C21: the result is the state root of the nearest directory among the start
\* and its ancestors up to 5 hops above it, and not-found when there is none
\* within 5 hops.
C21_FoundWithinFiveHops ==
    findPc = "done" => findResult = NearestWithin(5)

(***************************************************************************)
(* resolveAllConfigs over trees that hold an unparsable config file        *)
(***************************************************************************)
\* C22: an unparsable candidate file is skipped: the call never ends in an
\* exception, and a returned list holds every well-formed config that the
\* references reach, whether or not the tree holds an unparsable file.
C22_MalformedSkipped ==
    /\ resolvePc # "threw"
    /\ resolvePc = "done" =>
          /\ ReachableFrom(configTree, {RootPath}) \subseteq RangeOf(ResultPaths)
          /\ \A i \in 1..Len(resultList) : resultList[i].config.parses

\* a call returned a config that lies behind an unparsable file in search order
C22_Witness ==
    /\ resolvePc = "done"
    /\ \E i \in 2..Len(resultList) :
          \E k \in 2..Len(configTree) :
              k < resultList[i].path /\ ~configTree[k].parses

(***************************************************************************)
(* Actor storage server: unknown bindings and missing instances            *)
(***************************************************************************)
InstanceRoutes == {"schema", "table", "rows", "kv", "query"}

\* new DatabaseSync(dbPath, { open: true }) creates the file when it is missing
CreateIfMissing(dirs, dirName, file) ==
    {IF d.name = dirName /\ d.isDir THEN [d EXCEPT !.files = @ \cup {file}] ELSE d : d \in dirs}

\* a per-instance route of the actor storage server:
\*   const db = openInstanceDb(config, binding, instanceId)
\*   if (!db) return c.json({ error: 'Instance not found' }, 404)
\*   try { ... } catch { 500 } finally { db.close() }
DOInstanceRoute(route, binding, instanceId, listing, outcome) ==
    /\ doConfig # None
    /\ LET db == openInstanceDb(doConfig[1], binding, instanceId, listing, doDirs)
           dir == findDODir(doConfig[1], binding, listing)
           existed == dir # None
                      /\ [id |-> instanceId, ext |-> ".sqlite"] \in FilesOf(doDirs, dir[1])
       IN IF db = None
          THEN /\ doDirResp' = [op |-> route, status |-> 404, binding |-> binding,
                                instanceId |-> instanceId, existed |-> existed,
                                opened |-> None, created |-> FALSE]
               /\ UNCHANGED doDirs
          ELSE /\ doDirResp' = [op |-> route,
                                status |-> IF outcome = "ok" THEN 200 ELSE 500,
                                binding |-> binding, instanceId |-> instanceId,
                                existed |-> existed, opened |-> Some(db[1]),
                                created |-> CreateIfMissing(doDirs, dir[1],
                                               [id |-> instanceId, ext |-> ".sqlite"]) # doDirs]
               /\ doDirs' = CreateIfMissing(doDirs, dir[1],
                                            [id |-> instanceId, ext |-> ".sqlite"])
    /\ UNCHANGED doConfig
    /\ UNCHANGED NotDoDir

ServerBindingNames == {"COUNTER", "MISSING"}

CreateServerApp ==
    \E name \in ManifestNames :
        createDOStorageApp(name, <<[binding |-> "COUNTER", className |-> <<"C">>]>>)
MakeServerEntry == \E name \in ConnDirNames : \E isDir \in BOOLEAN : MakeEntry(name, isDir)
WriteServerInstanceFile ==
    \E name \in ConnDirNames : \E file \in InstanceFiles : WriteInstanceFile(name, file)
DOServerInstances ==
    \E binding \in ServerBindingNames : \E listing \in Enumerations(doDirs) :
        DOInstances(binding, listing)
DOInstanceRouteAny ==
    \E route \in InstanceRoutes : \E binding \in ServerBindingNames :
        \E instanceId \in InstanceIds : \E listing \in Enumerations(doDirs) :
            \E outcome \in {"ok", "queryThrows"} :
                DOInstanceRoute(route, binding, instanceId, listing, outcome)

DOServerNext ==
    \/ CreateServerApp
    \/ MakeServerEntry
    \/ WriteServerInstanceFile
    \/ DOServerInstances
    \/ DOInstanceRouteAny

SpecDOServer == Init /\ [][DOServerNext]_vars

\* C23: listing the instances of a binding the manifest does not have answers
\* 404; a per-instance route on an instance whose file does not exist answers
\* 404, opens nothing and creates no file.
C23_MissingIs404 ==
    /\ (doDirResp.op = "instances" /\ FindBinding(doConfig[1].do, doDirResp.binding) = None)
          => doDirResp.status = 404
    /\ (doDirResp.op \in InstanceRoutes /\ ~doDirResp.existed)
          => /\ doDirResp.status = 404
             /\ doDirResp.opened = None
             /\ ~doDirResp.created

\* the rows route was asked for an instance with no file under a known binding
\* whose directory exists, and answered 404
C23_Witness ==
    /\ doDirResp.op = "rows" /\ doDirResp.binding = "COUNTER"
    /\ ~doDirResp.existed /\ doDirResp.status = 404
    /\ \E d \in doDirs : d.isDir /\ d.name = <<"s", "-", "C">> /\ d.files # {}

(***************************************************************************)
(* Statement execution: read or write, by the leading keyword              *)
(***************************************************************************)
\* statement texts, as runs of white space and words
SqlWords == {"select", "SELECT", "Pragma", "EXPLAIN", "insert", "with"}
SqlStatements ==
    {<<>>} \cup {lead \o <<w, " ", "x">> \o trail :
                    lead \in {<<>>, <<" ">>}, w \in SqlWords, trail \in {<<>>, <<" ">>}}

UpperWord(w) ==
    CASE w = "select" -> "SELECT"
      [] w = "Pragma" -> "PRAGMA"
      [] w = "insert" -> "INSERT"
      [] w = "with" -> "WITH"
      [] w = "x" -> "X"
      [] OTHER -> w

RECURSIVE SqlUpper(_)
SqlUpper(sql) == IF sql = <<>> THEN <<>> ELSE <<UpperWord(Head(sql))>> \o SqlUpper(Tail(sql))

RECURSIVE TrimStart(_)
TrimStart(sql) ==
    IF sql # <<>> /\ Head(sql) = " " THEN TrimStart(Tail(sql)) ELSE sql

RECURSIVE TrimEnd(_)
TrimEnd(sql) ==
    IF sql # <<>> /\ sql[Len(sql)] = " " THEN TrimEnd(SubSeq(sql, 1, Len(sql) - 1)) ELSE sql

\* sql.trim().toUpperCase()
TrimUpper(sql) == SqlUpper(TrimEnd(TrimStart(sql)))

\* d1.ts: sql.trim().toUpperCase().startsWith('SELECT')
D1IsRead(sql) == StartsWith(TrimUpper(sql), <<"SELECT">>)

\* do-storage.ts: SELECT, PRAGMA or EXPLAIN
DOIsRead(sql) ==
    \/ StartsWith(TrimUpper(sql), <<"SELECT">>)
    \/ StartsWith(TrimUpper(sql), <<"PRAGMA">>)
    \/ StartsWith(TrimUpper(sql), <<"EXPLAIN">>)

\* how a statement is answered: 400 without text, a row set (stmt.all) for a
\* read, an affected-row count (stmt.run) for a write
QueryAnswer(sql, isRead) ==
    [op |-> "query", sql |-> sql,
     kind |-> IF sql = <<>> THEN "required" ELSE IF isRead THEN "rows" ELSE "changes"]

\* POST /:binding/query of createD1Routes
D1Query(sql) ==
    /\ d1QueryResp' = QueryAnswer(sql, D1IsRead(sql))
    /\ UNCHANGED doQueryResp
    /\ UNCHANGED NotSql

\* POST /do/:binding/:instanceId/query of the actor storage server
DOQuery(sql) ==
    /\ doQueryResp' = QueryAnswer(sql, DOIsRead(sql))
    /\ UNCHANGED d1QueryResp
    /\ UNCHANGED NotSql

D1QueryAny == \E sql \in SqlStatements : D1Query(sql)
DOQueryAny == \E sql \in SqlStatements : DOQuery(sql)

SqlNext ==
    \/ D1QueryAny
    \/ DOQueryAny

SpecSql == Init /\ [][SqlNext]_vars

\* C24: the two query endpoints answer the same statement text the same way:
\* both with a row set or both with an affected-row count.
C24_SameClassification ==
    (d1QueryResp.op = "query" /\ doQueryResp.op = "query"
     /\ d1QueryResp.sql = doQueryResp.sql)
        => d1QueryResp.kind = doQueryResp.kind

(***************************************************************************)
(* Object listing with prefix, cursor and delimiter                        *)
(***************************************************************************)
MaxObjects == 3

ObjectKeys == {<<"a">>, <<"b">>, <<"a", "/">>, <<"a", "/", "b">>, <<"/", "a">>}
ListPrefixes == {<<>>, <<"a">>, <<"a", "/">>}
Delimiters == {None, Some(<<>>), Some(<<"/">>)}
ListLimits == {1, 100}
ListCursors == {<<>>, <<"a">>}

\* text.indexOf(part): the first position (from 0) at which part occurs, or -1
RECURSIVE IndexOfFrom(_, _, _)
IndexOfFrom(text, part, i) ==
    IF i + Len(part) > Len(text) THEN -1
    ELSE IF SubSeq(text, i + 1, i + Len(part)) = part THEN i
    ELSE IndexOfFrom(text, part, i + 1)

IndexOf(text, part) == IndexOfFrom(text, part, 0)

\* text.slice(from) and text.slice(0, to)
SliceFrom(text, from) == IF from >= Len(text) THEN <<>> ELSE SubSeq(text, from + 1, Len(text))
SliceTo(text, to) == IF to >= Len(text) THEN text ELSE SubSeq(text, 1, to)

\* the for loop that fills prefixSet, in insertion order
RECURSIVE DelimitedPrefixes(_, _, _, _)
DelimitedPrefixes(found, objects, prefix, delimiter) ==
    IF objects = <<>> THEN found
    ELSE LET remaining == SliceFrom(Head(objects), Len(prefix))
             delimIndex == IndexOf(remaining, delimiter)
         IN DelimitedPrefixes(IF delimIndex # -1
                              THEN SetAdd(found, prefix \o SliceTo(remaining, delimIndex + 1))
                              ELSE found,
                              Tail(objects), prefix, delimiter)

\* GET /:binding/objects: prefix and cursor default to '', delimiter may be
\* missing; an empty delimiter is falsy
R2ListResponse(rows, prefix, limit, cursor, delimiter) ==
    LET matching == {k \in rows :
                        /\ prefix # <<>> => SqlLike(prefix \o <<"%">>, k)
                        /\ cursor # <<>> => KeyLess(cursor, k)}
        selected == SqlLimitOffset(OrderByKey(matching), limit + 1, 0)
        hasMore == Len(selected) > limit
        objects == SliceTo(selected, limit)
        truthy == delimiter # None /\ delimiter[1] # <<>>
        NotDelimited(k) == IndexOf(SliceFrom(k, Len(prefix)), delimiter[1]) = -1
    IN [op |-> "r2list", prefix |-> prefix, delimiter |-> delimiter, page |-> objects,
        objects |-> IF truthy THEN SelectSeq(objects, NotDelimited) ELSE objects,
        truncated |-> hasMore,
        cursor |-> IF hasMore /\ objects # <<>> THEN Some(objects[Len(objects)]) ELSE None,
        delimitedPrefixes |-> IF truthy /\ prefix # <<>>
                              THEN DelimitedPrefixes(<<>>, objects, prefix, delimiter[1])
                              ELSE <<>>]

R2ListObjects(prefix, limit, cursor, delimiter) ==
    /\ r2ListResp' = R2ListResponse(r2Objects, prefix, limit, cursor, delimiter)
    /\ UNCHANGED r2Objects
    /\ UNCHANGED NotR2List

\* an object is stored under a new key
R2InsertObject(key) ==
    /\ Cardinality(r2Objects) < MaxObjects
    /\ key \notin r2Objects
    /\ r2Objects' = r2Objects \cup {key}
    /\ r2ListResp' = NoResp
    /\ UNCHANGED NotR2List

R2InsertAny == \E key \in ObjectKeys : R2InsertObject(key)
R2ListAny == \E prefix \in ListPrefixes : \E limit \in ListLimits :
                 \E cursor \in ListCursors : \E delimiter \in Delimiters :
                     R2ListObjects(prefix, limit, cursor, delimiter)

R2ListNext ==
    \/ R2InsertAny
    \/ R2ListAny

SpecR2List == Init /\ [][R2ListNext]_vars

\* C25: listed with a delimiter, every object of the page whose key contains
\* the delimiter after the prefix is covered by exactly one common prefix (the
\* prefix plus the key up to and including the first delimiter) and is not
\* listed itself; every other object of the page is listed.
C25_DelimiterGrouping ==
    (/\ r2ListResp.op = "r2list"
     /\ r2ListResp.delimiter # None /\ r2ListResp.delimiter[1] # <<>>)
        => \A i \in 1..Len(r2ListResp.page) :
              LET key == r2ListResp.page[i]
                  rest == SliceFrom(key, Len(r2ListResp.prefix))
                  at == IndexOf(rest, r2ListResp.delimiter[1])
                  group == r2ListResp.prefix
                               \o SliceTo(rest, at + Len(r2ListResp.delimiter[1]))
              IN IF at # -1
                 THEN /\ Cardinality({j \in 1..Len(r2ListResp.delimitedPrefixes) :
                                         r2ListResp.delimitedPrefixes[j] = group}) = 1
                      /\ key \notin RangeOf(r2ListResp.objects)
                 ELSE key \in RangeOf(r2ListResp.objects)

(***************************************************************************)
(* Studio API server: opening an accessor by numeric index                 *)
(***************************************************************************)
\* state files as the runtime names them: hexadecimal digests
DigestFileNames == {<<"a", "b", ".sqlite">>, <<"1", "c", ".sqlite">>, <<"0", "d", ".sqlite">>}
IndexNames == {<<"0">>, <<"1">>, <<"5">>}

WriteDigestStateFile == \E type \in StateTypes : \E filename \in DigestFileNames :
                            WriteStateFile(type, filename)
StudioQueryIndex == \E type \in StateTypes : \E name \in IndexNames :
                        StudioQuery(type, name, "ok")

IndexNext ==
    \/ WriteDigestStateFile
    \/ StartApiServerPlain
    \/ StudioQueryIndex

SpecIndex == Init /\ [][IndexNext]_vars

\* C26: a request whose binding parameter is the decimal index of a file of
\* the discovered list opens exactly that file.
C26_OpenedByIndex ==
    (/\ studioResp.op = "query"
     /\ studioResp.name \in IndexNames
     /\ parseInt(studioResp.name)[1] < Len(apiServer[1].stateInfo[studioResp.type]))
        => /\ studioResp.status = 200
           /\ studioResp.opened =
                  Some(apiServer[1].stateInfo[studioResp.type]
                           [parseInt(studioResp.name)[1] + 1].path)

(***************************************************************************)
(* Key listing: paging through a namespace with cursors                    *)
(***************************************************************************)
MaxPageKeys == 3

PageKeyNames == {<<"a">>, <<"a", "a">>, <<"a", "_">>, <<"_">>, <<"A">>}
PagePrefixes == {<<>>, <<"a">>, <<"_">>}
PageLimits == {1, 2}

\* A mutated cursor condition that takes the cursor's own key again.
FromCursor(cursor, key) == cursor = key \/ KeyLess(cursor, key)

\* key > ?
AfterCursor(cursor, key) == KeyLess(cursor, key)

\* GET /:binding/keys: prefix and cursor default to ''; one row more than the
\* limit is fetched to see whether there are more
KvKeysResponse(rows, prefix, limit, cursor) ==
    LET matching == {k \in rows :
                        /\ prefix # <<>> => SqlLike(prefix \o <<"%">>, k)
                        /\ cursor # <<>> => AfterCursor(cursor, k)}
        selected == SqlLimitOffset(OrderByKey(matching), limit + 1, 0)
        hasMore == Len(selected) > limit
        keys == SliceTo(selected, limit)
    IN [keys |-> keys,
        cursor |-> IF hasMore /\ keys # <<>> THEN Some(keys[Len(keys)]) ELSE None,
        list_complete |-> ~hasMore]

\* a key is written while no listing is being paged through
KvInsertKey(key) ==
    /\ pageReq = Idle
    /\ Cardinality(kvKeys) < MaxPageKeys
    /\ key \notin kvKeys
    /\ kvKeys' = kvKeys \cup {key}
    /\ pageLast' = NoResp
    /\ pageKeys' = <<>>
    /\ UNCHANGED <<pageReq, pageCursor>>
    /\ UNCHANGED NotKvList

\* the client's first request: no cursor
KvPageFirst(prefix, limit) ==
    /\ pageReq = Idle
    /\ LET page == KvKeysResponse(kvKeys, prefix, limit, <<>>)
       IN /\ pageLast' = [op |-> "page", page |-> page, prefix |-> prefix, limit |-> limit]
          /\ pageKeys' = page.keys
          /\ pageCursor' = page.cursor
          /\ pageReq' = IF page.cursor = None THEN Idle
                        ELSE [op |-> "paging", prefix |-> prefix, limit |-> limit]
    /\ UNCHANGED kvKeys
    /\ UNCHANGED NotKvList

\* the client passes the cursor it was given; c.req.query('cursor') || ''
KvPageNext ==
    /\ pageReq # Idle
    /\ LET page == KvKeysResponse(kvKeys, pageReq.prefix, pageReq.limit, pageCursor[1])
       IN /\ pageLast' = [op |-> "page", page |-> page, prefix |-> pageReq.prefix,
                           limit |-> pageReq.limit]
          /\ pageKeys' = pageKeys \o page.keys
          /\ pageCursor' = page.cursor
          /\ pageReq' = IF page.cursor = None THEN Idle ELSE pageReq
    /\ UNCHANGED kvKeys
    /\ UNCHANGED NotKvList

KvInsertKeyAny == \E key \in PageKeyNames : KvInsertKey(key)
KvPageFirstAny == \E prefix \in PagePrefixes : \E limit \in PageLimits :
                      KvPageFirst(prefix, limit)

KvListNext ==
    \/ KvInsertKeyAny
    \/ KvPageFirstAny
    \/ KvPageNext

SpecKvList == Init /\ [][KvListNext]_vars

Ascending(keys) == \A i \in 1..(Len(keys) - 1) : KeyLess(keys[i], keys[i + 1])

\* C27: paging through a listing with a fixed prefix and a positive limit, with
\* no writes in between, every page holds at most limit keys, the keys of the
\* pages are strictly ascending (so none comes twice), a page that is not the
\* last brings a cursor and at least one key, and once the page with
\* list_complete and no cursor has come every key that starts with the prefix
\* has been returned.
C27_CursorPagingComplete ==
    pageLast.op = "page" =>
        /\ Len(pageLast.page.keys) <= pageLast.limit
        /\ Ascending(pageKeys)
        /\ pageLast.page.list_complete <=> (pageLast.page.cursor = None)
        /\ ~pageLast.page.list_complete => pageLast.page.keys # <<>>
        /\ pageLast.page.list_complete =>
               \A k \in kvKeys : StartsWith(k, pageLast.prefix) => k \in RangeOf(pageKeys)

\* C27 witness: a listing that took more than one page has been completed
C27_Witness ==
    /\ pageLast.op = "page"
    /\ pageLast.page.list_complete
    /\ pageLast.prefix # <<>>
    /\ Len(pageKeys) > pageLast.limit
    /\ \E k \in kvKeys : ~StartsWith(k, pageLast.prefix)

(***************************************************************************)
(* Key-value PUT: two requests in flight in one process                    *)
(***************************************************************************)
MaxPuts == 3

Handlers == 1..2
ConcurrentBodies ==
    {b \in PutBodies : b.value \in {<<"1">>, <<"HI">>} /\ b.expiration = None /\ b.expirationTtl = None}

\* A mutated upsert that keeps a row that is already there (INSERT OR IGNORE).
InsertOrIgnore(rows, key, row) ==
    IF rows[key] # None THEN rows ELSE [rows EXCEPT ![key] = Some(row)]

\* INSERT OR REPLACE INTO _mf_entries (key, blob_id, expiration, metadata)
InsertOrReplace(rows, key, row) == [rows EXCEPT ![key] = Some(row)]

\* the request arrives: getDatabase, then await c.req.json() yields to the event loop
PutArrive(i, key, body) ==
    /\ putPc[i].op \in {"idle", "done"}
    /\ Len(syncOrder) + Cardinality({j \in Handlers : putPc[j].op = "body"}) < MaxPuts
    /\ putPc' = [putPc EXCEPT ![i] =
                    [op |-> "body", key |-> key, body |-> body, status |-> 0, blobId |-> 0,
                     overlaps |-> \E j \in Handlers : j # i /\ putPc[j].op = "body"]]
    /\ UNCHANGED <<putRows, putBlobs, putNextBlob, syncOrder>>
    /\ UNCHANGED NotPut

\* the body has been read: from here to the return nothing awaits, so the
\* handler runs to its response in one turn of the event loop
PutSynchronous(i) ==
    /\ putPc[i].op = "body"
    /\ LET r == putPc[i]
           blobId == generateBlobId(putNextBlob)
           written == writeBlob(putBlobs, blobId, Utf8Encode(r.body.value), r.key)
           oldRow == putRows[r.key]
           cleaned == IF oldRow # None THEN deleteBlob(written, oldRow[1].blob_id)
                      ELSE written
       IN /\ putNextBlob' = blobId
          /\ putBlobs' = cleaned
          /\ putRows' = InsertOrReplace(putRows, r.key,
                            [blob_id |-> blobId, expiration |-> KvExpiration(r.body, now)])
          /\ putPc' = [putPc EXCEPT ![i] = [r EXCEPT !.op = "done", !.status = 200,
                                                     !.blobId = blobId]]
          /\ syncOrder' = Append(syncOrder, [handler |-> i, key |-> r.key, blobId |-> blobId,
                                             data |-> Utf8Encode(r.body.value)])
    /\ UNCHANGED NotPut

\* the body is not JSON: c.req.json() rejects, the catch block answers 500
PutBodyRejected(i) ==
    /\ putPc[i].op = "body"
    /\ putPc' = [putPc EXCEPT ![i] = [@ EXCEPT !.op = "done", !.status = 500]]
    /\ UNCHANGED <<putRows, putBlobs, putNextBlob, syncOrder>>
    /\ UNCHANGED NotPut

PutArriveAny == \E i \in Handlers : \E key \in Keys : \E body \in ConcurrentBodies :
                    PutArrive(i, key, body)
PutSynchronousAny == \E i \in Handlers : PutSynchronous(i)
PutBodyRejectedAny == \E i \in Handlers : PutBodyRejected(i)

PutNext ==
    \/ PutArriveAny
    \/ PutSynchronousAny
    \/ PutBodyRejectedAny

SpecPut == Init /\ [][PutNext]_vars

PutsTo(key) == SelectSeq(syncOrder, LAMBDA p : p.key = key)

\* C28: whatever the interleaving of the PUTs of one process, a key that has
\* been PUT has exactly one metadata row, the row references the blob of the PUT
\* whose synchronous section ran last, and that blob is the only blob left for
\* the key.
C28_LastPutWins ==
    \A key \in Keys :
        LET puts == PutsTo(key)
        IN IF puts = <<>>
           THEN putRows[key] = None /\ {b \in putBlobs : b.key = key} = {}
           ELSE LET last == puts[Len(puts)]
                IN /\ putRows[key] # None
                   /\ putRows[key][1].blob_id = last.blobId
                   /\ {b \in putBlobs : b.key = key} =
                          {[id |-> last.blobId, data |-> last.data, key |-> key]}

\* C28 witness: two PUTs to one key were in flight together and both have
\* completed, the one that arrived second having run first
C28_Witness ==
    /\ putPc[1].op = "done" /\ putPc[1].status = 200
    /\ putPc[2].op = "done" /\ putPc[2].status = 200
    /\ putPc[1].key = putPc[2].key
    /\ putPc[2].overlaps
    /\ putPc[1].body.value # putPc[2].body.value
    /\ putPc[2].blobId < putPc[1].blobId
    /\ putRows[putPc[1].key][1].blob_id = putPc[1].blobId

(***************************************************************************)
(* Actor bindings of a class that no config defines                        *)
(***************************************************************************)
ActorBlocksEmitted == {b \in SeqToSet(toml.blocks) : b.section = "durable_objects.bindings"}

\* C29: an actor binding whose class no config of the list defines locally is
\* emitted with script_name equal to the root config's service name
\* ('user-worker' when the root has no name), whatever script_name its
\* declaration carried, and every emitted actor binding has a script_name.
C29_UnownedClassGetsRoot ==
    phase = "done" =>
        /\ \A b \in ActorBlocksEmitted : b.script # Absent
        /\ \A k \in ClassNames :
               (~\E c \in 1..Len(configs) : LocallyDefines(c, k)) =>
                   \A b \in ActorBlocksOf(k) : b.script = WorkerName(configs[1])

\* C29 witness: a class bound only remotely, with a declared script_name that
\* is not the root's name, has been emitted from a list of two configs
C29_Witness ==
    /\ phase = "done"
    /\ Len(configs) = 2
    /\ \E k \in ClassNames :
           /\ ~\E c \in 1..Len(configs) : LocallyDefines(c, k)
           /\ ActorBlocksOf(k) # {}
           /\ \E j \in 1..Len(configs[2].do) :
                  /\ configs[2].do[j].target = k
                  /\ configs[2].do[j].script # WorkerName(configs[1])

(***************************************************************************)
(* Logs: the in-memory buffer and its listeners                            *)
(***************************************************************************)
MAX_LOGS == 1000
MaxSingleAdds == 4
BurstGap == 2

ListenerIds == {"l1", "l2"}
LogMessages == {"m1", "m2"}

\* A mutated trim that drops the newest entry instead of the oldest.
DropNewest(buffer) == SubSeq(buffer, 1, Len(buffer) - 1)

\* logBuffer.shift()
Shift(buffer) == Tail(buffer)

\* while (logBuffer.length > MAX_LOGS) logBuffer.shift()
RECURSIVE KeepLimited(_)
KeepLimited(buffer) ==
    IF Len(buffer) > MAX_LOGS THEN KeepLimited(Shift(buffer)) ELSE buffer

\* logListeners.forEach((listener) => listener(logEntry)): how often each
\* listener is called
RECURSIVE ForEachListener(_, _)
ForEachListener(remaining, calls) ==
    IF remaining = {} THEN calls
    ELSE LET l == CHOOSE x \in remaining : TRUE
         IN ForEachListener(remaining \ {l}, [calls EXCEPT ![l] = @ + 1])

\* addLog: the entry gets a fresh id, is pushed, the buffer is trimmed
LogEntry(seq, message) == [id |-> seq + 1, message |-> message]

LogState(buffer, seq, added) == [buffer |-> buffer, seq |-> seq, added |-> added]

addLog(st, message) ==
    LET logEntry == LogEntry(st.seq, message)
    IN LogState(KeepLimited(Append(st.buffer, logEntry)), st.seq + 1, Append(st.added, logEntry))

\* n calls of addLog in a row, the first half of them before the second
RECURSIVE AddLogTimes(_, _, _)
AddLogTimes(st, message, n) ==
    IF n = 0 THEN st
    ELSE IF n = 1 THEN addLog(st, message)
    ELSE LET firstHalf == AddLogTimes(st, message, n \div 2)
         IN IF firstHalf.seq = st.seq + (n \div 2)
            THEN AddLogTimes(firstHalf, message, n - (n \div 2))
            ELSE firstHalf

Notified(entry) ==
    [op |-> "addLog", entry |-> entry, subscribed |-> logListeners,
     calls |-> ForEachListener(logListeners, [l \in ListenerIds |-> 0])]

\* addLog(entry)
AddLog(message) ==
    /\ logCalls.singles < MaxSingleAdds
    /\ LET st == addLog(LogState(logBuffer, logSeq, addedSinceClear), message)
       IN /\ logBuffer' = st.buffer
          /\ logSeq' = st.seq
          /\ addedSinceClear' = st.added
          /\ lastAdd' = Notified(LogEntry(logSeq, message))
    /\ logCalls' = [logCalls EXCEPT !.singles = @ + 1]
    /\ UNCHANGED logListeners
    /\ UNCHANGED NotLog

\* addLog called MAX_LOGS - BurstGap times in a row
AddLogBurst ==
    /\ logCalls.bursts = 0
    /\ LET n == MAX_LOGS - BurstGap
           st == AddLogTimes(LogState(logBuffer, logSeq, addedSinceClear), "m1", n)
       IN /\ logBuffer' = st.buffer
          /\ logSeq' = st.seq
          /\ addedSinceClear' = st.added
          /\ lastAdd' = Notified(LogEntry(logSeq + n - 1, "m1"))
    /\ logCalls' = [logCalls EXCEPT !.bursts = @ + 1]
    /\ UNCHANGED logListeners
    /\ UNCHANGED NotLog

\* clearLogs: logBuffer.length = 0
ClearLogs ==
    /\ logBuffer # <<>>
    /\ logBuffer' = <<>>
    /\ addedSinceClear' = <<>>
    /\ UNCHANGED <<logListeners, logSeq, lastAdd, logCalls>>
    /\ UNCHANGED NotLog

\* subscribeToLogs(listener): logListeners.add(listener)
SubscribeToLogs(l) ==
    /\ l \notin logListeners
    /\ logListeners' = logListeners \cup {l}
    /\ UNCHANGED <<logBuffer, logSeq, addedSinceClear, lastAdd, logCalls>>
    /\ UNCHANGED NotLog

\* the function subscribeToLogs returned: logListeners.delete(listener)
Unsubscribe(l) ==
    /\ l \in logListeners
    /\ logListeners' = logListeners \ {l}
    /\ UNCHANGED <<logBuffer, logSeq, addedSinceClear, lastAdd, logCalls>>
    /\ UNCHANGED NotLog

AddLogAny == \E message \in LogMessages : AddLog(message)
SubscribeAny == \E l \in ListenerIds : SubscribeToLogs(l)
UnsubscribeAny == \E l \in ListenerIds : Unsubscribe(l)

LogNext ==
    \/ AddLogAny
    \/ AddLogBurst
    \/ ClearLogs
    \/ SubscribeAny
    \/ UnsubscribeAny

SpecLog == Init /\ [][LogNext]_vars

\* the last n elements of a sequence
LastOf(s, n) == IF Len(s) <= n THEN s ELSE SubSeq(s, Len(s) - n + 1, Len(s))

\* C30: the buffer never holds more than 1000 entries and is exactly the most
\* recently added entries since the last clear, in insertion order; an addLog
\* calls every listener subscribed at that moment exactly once, with the entry
\* it added, and no other listener.
C30_BufferKeepsLatest ==
    /\ Len(logBuffer) <= 1000
    /\ logBuffer = LastOf(addedSinceClear, 1000)
    /\ lastAdd.op = "addLog" =>
           /\ lastAdd.entry.id = logSeq
           /\ \A l \in ListenerIds :
                  lastAdd.calls[l] = IF l \in lastAdd.subscribed THEN 1 ELSE 0

\* C30 witness: more than 1000 entries were added since the last clear, so the
\* oldest have been dropped, and the last one was delivered to a listener
C30_Witness ==
    /\ Len(addedSinceClear) > 1000
    /\ Len(logBuffer) = 1000
    /\ logBuffer[1].id > addedSinceClear[1].id
    /\ lastAdd.op = "addLog"
    /\ lastAdd.subscribed # {}
    /\ lastAdd.subscribed # ListenerIds

====
